---------------------------- MODULE Spec2Model ----------------------------
(***************************************************************************)
(* Model of the transcript cue assembler (TranscriptParser) and of the     *)
(* two-tier cache (CacheService) of borg-data-assimilator.                 *)
(*                                                                         *)
(* Text is modelled as a sequence of one-character strings, so that the    *)
(* regular expressions and string methods of the source can be computed    *)
(* character by character.  An optional value (undefined / null in the     *)
(* source) is a sequence of length 0 (absent) or 1 (present).              *)
(***************************************************************************)
EXTENDS Integers, Sequences, FiniteSets, TLC

(***************************************************************************)
(* Characters and the String methods the parser uses.                      *)
(***************************************************************************)
None == <<>>
Some(x) == <<x>>

Min(S) == CHOOSE x \in S : \A y \in S : x <= y
Max(S) == CHOOSE x \in S : \A y \in S : x >= y

\* A-Z and a-z, position by position; the last pair is the accented letter of
\* the French credit phrases.
UpperSeq == <<"A","B","C","D","E","F","G","H","I","J","K","L","M","N","O","P","Q","R","S","T","U","V","W","X","Y","Z","É">>
LowerSeq == <<"a","b","c","d","e","f","g","h","i","j","k","l","m","n","o","p","q","r","s","t","u","v","w","x","y","z","é">>
AsciiUpper == {UpperSeq[i] : i \in 1..26}
LowerChars == {LowerSeq[i] : i \in 1..Len(LowerSeq)}
Digits == {"0","1","2","3","4","5","6","7","8","9"}
\* \s of the regular expressions and the characters String.trim() removes
WhiteSpace == {" ", "\t", "\r", "\n"}
\* the characters "." of a regular expression does not match
LineTerminators == {"\r", "\n"}

UpperOf == [c \in LowerChars |-> UpperSeq[CHOOSE i \in 1..Len(LowerSeq) : LowerSeq[i] = c]]

ToUpperChar(c) == IF c \in LowerChars THEN UpperOf[c] ELSE c

\* String.prototype.toUpperCase
ToUpperCase(s) == [i \in 1..Len(s) |-> ToUpperChar(s[i])]

\* String.prototype.startsWith / endsWith
StartsWith(s, p) == Len(p) <= Len(s) /\ SubSeq(s, 1, Len(p)) = p
EndsWith(s, p) == Len(p) <= Len(s) /\ SubSeq(s, Len(s) - Len(p) + 1, Len(s)) = p

\* String.prototype.substring(from) with a 0-based index
Substring(s, from) == SubSeq(s, from + 1, Len(s))

\* p occurs in s at (1-based) position i
StartsAt(s, i, p) == i >= 1 /\ i + Len(p) - 1 <= Len(s) /\ SubSeq(s, i, i + Len(p) - 1) = p

\* Last index j >= i - 1 such that s[i..j] lies in the class cls (a greedy X*).
RECURSIVE RunEnd(_, _, _)
RunEnd(s, i, cls) ==
    IF i > Len(s) \/ s[i] \notin cls THEN i - 1 ELSE RunEnd(s, i + 1, cls)

\* First index j <= i + 1 such that s[j..i] lies in the class cls.
RECURSIVE RunStart(_, _, _)
RunStart(s, i, cls) ==
    IF i < 1 \/ s[i] \notin cls THEN i + 1 ELSE RunStart(s, i - 1, cls)

\* Position after a greedy \s* starting at i.
SkipWs(s, i) == RunEnd(s, i, WhiteSpace) + 1

\* String.prototype.trim
Trim(s) == SubSeq(s, SkipWs(s, 1), RunStart(s, Len(s), WhiteSpace) - 1)

\* string.replace(/\s\s+/g, ' '): every run of two or more whitespace
\* characters becomes one space; a single whitespace character is kept.
RECURSIVE CollapseWs(_)
CollapseWs(s) ==
    IF s = <<>> THEN <<>>
    ELSE IF s[1] \in WhiteSpace /\ Len(s) >= 2 /\ s[2] \in WhiteSpace
         THEN <<" ">> \o CollapseWs(SubSeq(s, SkipWs(s, 1), Len(s)))
         ELSE <<s[1]>> \o CollapseWs(Tail(s))

(***************************************************************************)
(* The regular expressions of REGEX, as the engine compiles them.          *)
(***************************************************************************)
\* SPEAKER_CORE_CHARSET is written '[A-Z0-9\s,\'\-.()]' in an ordinary string
\* literal, where \s, \' and \- are the characters s, ' and -.  The class the
\* engine sees is [A-Z0-9s,'-.()]: the letter s, and '-. is the range from
\* ' to . (the characters ' ( ) * + , - .).  It has no whitespace.
SPEAKER_CORE_CHARSET ==
    AsciiUpper \cup Digits \cup {"s", ",", "'", "(", ")", "*", "+", "-", "."}

\* \s*: at position i
ColonAfter(t, i) == LET j == SkipWs(t, i) IN j <= Len(t) /\ t[j] = ":"

\* OPTIONAL_BRACKET_ANNOTATION is written '(?:\s*\[[^\]]*?\])?' in an ordinary
\* string literal: the engine sees (?:s*[[^]]*?])?, that is any number of
\* letters s, one of the characters [ and ^, then ] one or more times.  The
\* end of such an annotation that starts after position w and is followed by
\* \s*: , or 0 when there is none.
OPTIONAL_BRACKET_ANNOTATION(t, w) ==
    LET x == RunEnd(t, w + 1, {"s"}) + 1
        r == RunEnd(t, x + 1, {"]"})
    IN IF x <= Len(t) /\ t[x] \in {"[", "^"} /\ r > x /\ ColonAfter(t, r + 1)
       THEN r ELSE 0

\* SPEAKER_TAG_PATTERN_STRING followed by \s*: , for a tag that starts at a:
\* [A-Z], then SPEAKER_CORE_CHARSET* (greedy), then OPTIONAL_PAREN_ANNOTATION,
\* which the engine sees as (?:s*([^)]*?))? (any characters but ")", as few as
\* possible), then OPTIONAL_BRACKET_ANNOTATION (tried before leaving it out).
\* The value is the index of the tag's last character, or 0 for no match.
SPEAKER_TAG_PATTERN_STRING(t, a) ==
    IF a > Len(t) \/ t[a] \notin AsciiUpper THEN 0
    ELSE LET m == RunEnd(t, a + 1, SPEAKER_CORE_CHARSET)
             closing == {j \in m + 1..Len(t) : t[j] = ")"}
             limit == IF closing = {} THEN Len(t) ELSE Min(closing) - 1
             ends == {w \in m..limit :
                        OPTIONAL_BRACKET_ANNOTATION(t, w) # 0 \/ ColonAfter(t, w + 1)}
         IN IF ends = {} THEN 0
            ELSE LET w == Min(ends)
                     b == OPTIONAL_BRACKET_ANNOTATION(t, w)
                 IN IF b # 0 THEN b ELSE w

LogMarkers ==
    {<<"S","t","a","r","d","a","t","e",":">>,
      <<"C","a","p","t","a","i","n","'","s"," ","l","o","g",":">>,
      <<"O","r","i","g","i","n","a","l"," ","A","i","r","d","a","t","e",":">>}

\* REGEX.CUE_START matched against a line: [matched, speaker], speaker being
\* capture group 1 (present only for the first alternative, the speaker tag).
\* The alternatives are tried in order: optional parenthetical + speaker tag +
\* colon; a parenthetical; a bracketed direction; a log marker.
CUE_START(t) ==
    LET s == SkipWs(t, 1)
        closeP == {j \in s + 1..Len(t) : t[j] = ")"}
        \* start of the speaker tag: after (...)\s* when the line opens with a
        \* parenthetical, else at s
        a == IF s <= Len(t) /\ t[s] = "(" /\ closeP # {}
             THEN SkipWs(t, Min(closeP) + 1) ELSE s
        e == SPEAKER_TAG_PATTERN_STRING(t, a)
        closeB == {j \in s + 1..Len(t) : t[j] = "]" /\
                     \A k \in s + 1..j - 1 : t[k] \notin LineTerminators}
    IN IF e # 0 THEN [matched |-> TRUE, speaker |-> Some(SubSeq(t, a, e))]
       ELSE IF s <= Len(t) /\ t[s] = "(" /\ closeP # {}
            THEN [matched |-> TRUE, speaker |-> None]
       ELSE IF s <= Len(t) /\ t[s] = "[" /\ closeB # {}
            THEN [matched |-> TRUE, speaker |-> None]
       ELSE IF \E mk \in LogMarkers : StartsAt(t, s, mk)
            THEN [matched |-> TRUE, speaker |-> None]
       ELSE [matched |-> FALSE, speaker |-> None]

\* REGEX.SCENE_HEADER = ^\s*\d+\s+(.+?)\s+\d+\s*$ matched against a line:
\* capture group 1, or None.  \s+ after the first number is greedy (longest
\* first), the capture is lazy (shortest first).
SCENE_HEADER(t) ==
    LET s == SkipWs(t, 1)
        a == RunEnd(t, s, Digits)                 \* last digit of the first number
        b == RunEnd(t, a + 1, WhiteSpace)         \* last of the whitespace after it
        z == Max({0} \cup {j \in 1..Len(t) : t[j] \notin WhiteSpace})  \* before the final \s*
        q == Min({j \in 1..z + 1 : \A k \in j..z : t[k] \in Digits})     \* first digit of the last number
        p == Min({j \in 1..q : \A k \in j..q - 1 : t[k] \in WhiteSpace}) \* first of the whitespace before it
        cands == {c \in (a + 2..b + 1) \X (1..Len(t)) :
                    /\ c[1] <= c[2]
                    /\ c[2] + 1 >= p /\ c[2] + 1 <= q - 1
                    /\ \A k \in c[1]..c[2] : t[k] \notin LineTerminators}
    IN IF a < s \/ b = a \/ q > z \/ p = q \/ cands = {} THEN None
       ELSE LET from == Max({c[1] : c \in cands})
                to == Min({c[2] : c \in {d \in cands : d[1] = from}})
            IN Some(SubSeq(t, from, to))

OmittedWord == <<"O","M","I","T","T","E","D">>

\* REGEX.MOVIE_LINE = ^\s*(?:\d+\s+OMITTED(?:\s+\d+)?|\d+)\s*$
MOVIE_LINE(o) ==
    LET s == SkipWs(o, 1)
        a == RunEnd(o, s, Digits)
        b == SkipWs(o, a + 1)
        c == b + Len(OmittedWord)
        d == SkipWs(o, c)
        e == RunEnd(o, d, Digits)
    IN /\ a >= s
       /\ \/ SkipWs(o, a + 1) > Len(o)
          \/ /\ b > a + 1
             /\ StartsAt(o, b, OmittedWord)
             /\ \/ SkipWs(o, c) > Len(o)
                \/ d > c /\ e >= d /\ SkipWs(o, e + 1) > Len(o)

FooterText == <<"<","B","a","c","k"," ","t","o"," ","t","h","e"," ","e","p","i","s","o","d","e"," ","l","i","s","t","i","n","g">>

\* REGEX.FOOTER = ^\s*<Back to the episode listing
FOOTER(o) == StartsAt(o, SkipWs(o, 1), FooterText)

MovieSpeakerCharset == AsciiUpper \cup Digits \cup WhiteSpace \cup {"'", "."}
VoicePossessive == <<"'","S">>
VoiceWord == <<"V","O","I","C","E">>
MinIndent == 10

\* REGEX.MOVIE_SPEAKER =
\*   ^\s{10,}([A-Z][A-Z0-9\s'.]*(?:\([A-Z\s.]+\))?(?:'S\sVOICE)?)\s*$
\* matched against the untrimmed line: capture group 1, or None.
MOVIE_SPEAKER(o) ==
    LET p == SkipWs(o, 1)
        m == RunEnd(o, p + 1, MovieSpeakerCharset)
        r == RunEnd(o, m + 2, AsciiUpper \cup WhiteSpace \cup {"."}) + 1   \* the ")"
        v == IF /\ StartsAt(o, r + 1, VoicePossessive)
                /\ r + 3 <= Len(o) /\ o[r + 3] \in WhiteSpace
                /\ StartsAt(o, r + 4, VoiceWord)
             THEN r + 3 + Len(VoiceWord) ELSE r
    IN IF p - 1 < MinIndent \/ p > Len(o) \/ o[p] \notin AsciiUpper THEN None
       ELSE IF m = Len(o) THEN Some(SubSeq(o, p, Len(o)))
       ELSE IF /\ o[m + 1] = "("
               /\ r > m + 2 /\ r <= Len(o) /\ o[r] = ")"
               /\ SkipWs(o, v + 1) > Len(o)
            THEN Some(SubSeq(o, p, v))
       ELSE None

\* The alternatives of REGEX.CREDIT_LINE, upper-cased (the expression has the
\* i flag); "credits? and ..." is two phrases.  Stardate.*\d+\.\d+ is apart.
CreditPhrases ==
    { <<"S","T","O","R","Y"," ","B","Y">>,
       <<"S","C","R","E","E","N","P","L","A","Y"," ","B","Y">>,
       <<"W","R","I","T","T","E","N"," ","B","Y">>,
       <<"D","I","R","E","C","T","E","D"," ","B","Y">>,
       <<"P","R","O","D","U","C","E","D"," ","B","Y">>,
       <<"E","X","E","C","U","T","I","V","E"," ","P","R","O","D","U","C","E","R">>,
       <<"C","O","-","E","X","E","C","U","T","I","V","E"," ","P","R","O","D","U","C","E","R">>,
       <<"A","S","S","O","C","I","A","T","E"," ","P","R","O","D","U","C","E","R">>,
       <<"C","O","N","S","U","L","T","I","N","G"," ","P","R","O","D","U","C","E","R">>,
       <<"T","E","L","E","P","L","A","Y"," ","B","Y">>,
       <<"F","I","R","S","T"," ","D","R","A","F","T">>,
       <<"O","R","I","G","I","N","A","L"," ","A","I","R","D","A","T","E",":">>,
       <<"A","I","R","D","A","T","E",":">>,
       <<"C","A","P","T","A","I","N","'","S"," ","L","O","G",","," ","S","U","P","P","L","E","M","E","N","T","A","L">>,
       <<"B","A","S","É","E"," ","S","U","R"," ","U","N","E"," ","I","D","É","E"," ","O","R","I","G","I","N","A","L","E">>,
       <<"U","N","E"," ","C","O","P","R","O","D","U","C","T","I","O","N"," ","D","E">>,
       <<"A","D","A","P","T","É"," ","P","A","R">>,
       <<"D","I","A","L","O","G","U","E","S"," ","D","E">>,
       <<"S","C","É","N","A","R","I","O"," ","E","T"," ","D","I","A","L","O","G","U","E","S">>,
       <<"S","E","P","T","E","M","B","E","R"," ","2","9",","," ","1","9","9","5">>,
       <<"C","O","P","Y","R","I","G","H","T">>,
       <<"A","L","L"," ","R","I","G","H","T","S"," ","R","E","S","E","R","V","E","D">>,
       <<"T","R","A","N","S","C","R","I","B","E","D"," ","B","Y">>,
       <<"C","R","E","D","I","T"," ","A","N","D"," ","T","R","A","N","S","C","R","I","P","T","I","O","N","S"," ","B","Y">>,
       <<"C","R","E","D","I","T","S"," ","A","N","D"," ","T","R","A","N","S","C","R","I","P","T","I","O","N","S"," ","B","Y">> }
NullToken == <<"[","n","u","l","l","]">>
StardateWord == <<"S","T","A","R","D","A","T","E">>

\* REGEX.CREDIT_LINE = /^(?:\s*\[null\]\s*)?(?:Story by|...|Stardate.*\d+\.\d+|...)/i
CREDIT_LINE(t) ==
    LET u == ToUpperCase(t)
        p == SkipWs(u, 1)
        n == IF StartsAt(u, p, ToUpperCase(NullToken))
             THEN SkipWs(u, p + Len(NullToken)) ELSE 0
        Phrase(k) ==
            \/ \E ph \in CreditPhrases : StartsAt(u, k, ph)
            \/ /\ StartsAt(u, k, StardateWord)
               /\ \E i \in k + Len(StardateWord)..Len(u) - 2 :
                    /\ u[i] \in Digits /\ u[i + 1] = "." /\ u[i + 2] \in Digits
                    /\ \A j \in k + Len(StardateWord)..i : u[j] \notin LineTerminators
    IN (n # 0 /\ Phrase(n)) \/ Phrase(1)

(***************************************************************************)
(* Input.  A transcript is a sequence of lines (content.split('\n')); the  *)
(* model draws it from a catalogue of lines of every category, and from    *)
(* the worked examples of the documentation.                               *)
(***************************************************************************)
MaxLines == 3

L_Picard == <<"P","I","C","A","R","D",":"," ","M","a","k","e"," ","i","t"," ","s","o",".">>
L_HeSits == <<" "," ","(","H","e"," ","s","i","t","s",".",")">>
L_Riker == <<" "," "," "," "," "," "," "," "," "," ","R","I","K","E","R">>
L_Aye == <<"A","y","e",","," ","C","a","p","t","a","i","n",".">>
L_Omitted == <<"4","2"," ","O","M","I","T","T","E","D">>
L_Footer == <<"<","B","a","c","k"," ","t","o"," ","t","h","e"," ","e","p","i","s","o","d","e"," ","l","i","s","t","i","n","g">>
L_HeaderBridge == <<"1","0","1"," "," "," ","I","N","T","."," ","B","R","I","D","G","E"," "," "," ","1","0","1">>
L_Blank == <<>>
L_Header10 == <<"1","0"," "," ","B","R","I","D","G","E"," "," ","1","0">>
L_Watches == <<"T","h","e"," ","b","r","i","d","g","e"," ","c","r","e","w"," ","w","a","t","c","h","e","s",".">>
L_Engage == <<"P","I","C","A","R","D",":"," ","E","n","g","a","g","e",".">>
L_Sulu == <<" "," "," "," "," "," "," "," "," "," ","S","U","L","U">>
L_AyeSir == <<"A","y","e",","," ","s","i","r",","," ","e","n","g","a","g","i","n","g",".">>

Catalogue ==
    { <<"D","A","T","A",":"," ","Y","e","s",".">>,
      <<"(","B","e","a","t",")">>,
      <<" "," "," "," "," "," "," "," "," "," "," ","W","O","R","F">>,
      <<"G","o"," ","o","n",".">>,
      <<"7"," ","O","M","I","T","T","E","D">>,
      <<>>,
      <<"3"," "," ","L","A","B"," "," ","A"," "," ","3">>,
      <<"D","i","r","e","c","t","e","d"," ","b","y"," ","A","l">>,
      <<"[","n","u","l","l","]"," ","A","i","r","d","a","t","e",":"," ","1">>,
      <<"[","L","A","B"," ","A","]">>,
      <<"[","n","u","l","l","]">>,
      <<"H","e"," ","s","a","i","d",":"," ","g","o">>,
      <<"(","l","o","w",")"," ","Q",":"," ","N","o">>,
      <<"T","R","O","I"," ",":">>,
      <<"1"," "," "," ","2">> }

\* every input of at most n catalogue lines
RECURSIVE Inputs(_)
Inputs(n) ==
    IF n = 0 THEN {<<>>}
    ELSE LET shorter == Inputs(n - 1)
         IN shorter \cup {Append(s, l) : s \in {x \in shorter : Len(x) = n - 1}, l \in Catalogue}

\* Exhaustive probes: every line of at most MaxChars characters of ProbeChars,
\* alone, after a scene header, after a movie speaker label, and before an
\* inline dialogue line.
MaxChars == 3
ProbeChars == {"W", "w", ":", " ", "(", ")", "[", "]", "1"}
L_LabelW == <<" "," "," "," "," "," "," "," "," "," "," ","W">>
L_Header1 == <<"1"," ","W"," "," ","w"," ","1">>
L_DialogueW == <<"W",":"," ","w">>

RECURSIVE ShortLines(_)
ShortLines(n) ==
    IF n = 0 THEN {<<>>}
    ELSE LET shorter == ShortLines(n - 1)
         IN shorter \cup {Append(s, c) : s \in {x \in shorter : Len(x) = n - 1}, c \in ProbeChars}

Probes ==
    {pre \o <<l>> \o post :
        pre \in {<<>>, <<L_LabelW>>, <<L_Header1>>},
        l \in ShortLines(MaxChars),
        post \in {<<>>, <<L_DialogueW>>}}

EndToEnd ==
    <<L_HeaderBridge, L_Picard, L_HeSits, L_Riker, L_Aye, L_Omitted, L_Footer>>
SceneContextExample == <<L_Header10, L_Watches, L_Engage>>
MovieSpeakerExample == <<L_Sulu, L_AyeSir>>
Examples == {EndToEnd, SceneContextExample, MovieSpeakerExample}

(***************************************************************************)
(* The cue assembler: ParsingState and the line being read.                *)
(***************************************************************************)
VARIABLES
    lines,                 \* content.split('\n') of the file being parsed
    lineNo,                \* index of the next line of the for loop
    parsePc,               \* "parsing" while the loop runs, "done" after the last finalize
    cues,                  \* state.cues: [raw, character] records, character optional
    currentCue,            \* state.currentCue: optional [raw, character]
    pendingMovieSpeaker,   \* state.pendingMovieSpeaker: optional text
    currentSceneContext,   \* state.currentSceneContext: optional text
    curSrc,                \* history: the line numbers accumulated into currentCue
    cueSrc                 \* history: for each emitted cue, the line numbers it was built from

parserVars ==
    <<lines, lineNo, parsePc, cues, currentCue, pendingMovieSpeaker,
      currentSceneContext, curSrc, cueSrc>>

(***************************************************************************)
(* State of one CacheService instance, of its persisted files and of the   *)
(* calls made on it.                                                       *)
(***************************************************************************)
VARIABLES
    persistentCacheEnabled, \* this.persistentCacheEnabled
    defaultTtlSeconds,      \* this.defaultTtlSeconds: optional number
    store,                  \* this.store: for every key an optional CacheItem
    disk,                   \* for every key the file <persistentCachePath>/<hash(key)>.json
    dirExists,              \* whether the directory persistentCachePath exists
    now,                    \* Date.now(), milliseconds
    calls,                  \* the calls in flight, each suspended at an await
    issued,                 \* number of calls made so far
    done,                   \* history: the call completed last, <<>> before the first
    latest,                 \* history: for every key, the last set or removal made on it
    ioFailed,               \* history: a file operation was made to fail
    parseCalls              \* the parseTranscript calls made on one transcript file

cacheVars ==
    <<persistentCacheEnabled, defaultTtlSeconds, store, disk, dirExists, now,
      calls, issued, done, latest, ioFailed, parseCalls>>

(***************************************************************************)
(* State of one searchDialog or searchKeyword call.                        *)
(***************************************************************************)
VARIABLES
    directory,                   \* the files under this.transcriptDir, as listed
    config,                      \* the TranscriptSearchConfig of the call
    searchPc,                    \* position of the call
    transcriptFiles,             \* _searchCuesByFilter: transcriptFiles
    fileNo,                      \* position of the for loop in transcriptFiles
    cachedCues,                  \* what the cache service holds for every cache key
    allMatchingCuesWithContext,  \* _searchCuesByFilter: the matches so far
    searchResult                 \* the TranscriptSearchResult returned, if any

searchVars ==
    <<directory, config, searchPc, transcriptFiles, fileNo, cachedCues,
      allMatchingCuesWithContext, searchResult>>

\* no search is made
SearchUnused ==
    /\ directory = <<>>
    /\ config = <<>>
    /\ searchPc = "none"
    /\ transcriptFiles = <<>>
    /\ fileNo = 0
    /\ cachedCues = <<>>
    /\ allMatchingCuesWithContext = <<>>
    /\ searchResult = None

NullPrefix == <<"[","n","u","l","l","]"," ">>

\* the last step of _finalizeAndAddCue: push unless the text is blank
PushCue(cs, cueToAdd) == IF Trim(cueToAdd.raw) # <<>> THEN Append(cs, cueToAdd) ELSE cs

FinalizeDialogue_NoPrefix(cs, c, rawText, ctx) ==
    [cues |-> PushCue(cs, [raw |-> rawText, character |-> Some(c)]),
     currentSceneContext |-> None]

FinalizeDialogue_NeverStrips(cs, c, rawText, ctx) ==
    [cues |-> PushCue(cs, [raw |-> c \o <<":", " ">> \o rawText, character |-> Some(c)]),
     currentSceneContext |-> None]

FinalizeDialogue_KeepsContext(cs, c, rawText, ctx) ==
    LET dialogueSegment ==
            IF StartsWith(ToUpperCase(rawText), ToUpperCase(c) \o <<":">>)
            THEN Trim(Substring(rawText, Len(c) + 1)) ELSE rawText
    IN [cues |-> PushCue(cs, [raw |-> c \o <<":", " ">> \o dialogueSegment,
                              character |-> Some(c)]),
        currentSceneContext |-> ctx]

\* _finalizeAndAddCue, the dialogue branch: the cue is rendered as
\* "<character>: <dialogue>" and the scene context is cleared.
FinalizeDialogue(cs, c, rawText, ctx) ==
    LET dialogueSegment ==
            IF StartsWith(ToUpperCase(rawText), ToUpperCase(c) \o <<":">>)
            THEN Trim(Substring(rawText, Len(c) + 1)) ELSE rawText
        cueToAdd == [raw |-> c \o <<":", " ">> \o dialogueSegment,
                     character |-> Some(c)]
    IN [cues |-> PushCue(cs, cueToAdd), currentSceneContext |-> None]

FinalizeDescription_NoContext(cs, rawText, ctx) ==
    [cues |-> PushCue(cs, [raw |-> rawText, character |-> None]),
     currentSceneContext |-> ctx]

FinalizeDescription_ContextNotConsumed(cs, rawText, ctx) ==
    LET active == ctx # None /\ ctx[1] # <<>>
        isSelfContainedBracket ==
            StartsWith(rawText, <<"[">>) /\ EndsWith(rawText, <<"]">>)
        bracketed == <<"[">> \o ToUpperCase(ctx[1]) \o <<"]">>
        prepend ==
            /\ active
            /\ ~isSelfContainedBracket
            /\ ~StartsWith(ToUpperCase(rawText), bracketed)
        text == IF prepend
                THEN <<"[">> \o ctx[1] \o <<"]", " ">> \o rawText
                ELSE rawText
    IN [cues |-> PushCue(cs, [raw |-> text, character |-> None]),
        currentSceneContext |-> ctx]

\* _finalizeAndAddCue, the scene description / action branch
FinalizeDescription(cs, rawText, ctx) ==
    LET active == ctx # None /\ ctx[1] # <<>>
        isSelfContainedBracket ==
            StartsWith(rawText, <<"[">>) /\ EndsWith(rawText, <<"]">>)
        bracketed == <<"[">> \o ToUpperCase(ctx[1]) \o <<"]">>
        sceneContextEffectivelyApplied ==
            active /\ isSelfContainedBracket /\ ToUpperCase(rawText) = bracketed
        prepend ==
            /\ active
            /\ ~isSelfContainedBracket
            /\ ~StartsWith(ToUpperCase(rawText), bracketed)
        text == IF prepend
                THEN <<"[">> \o ctx[1] \o <<"]", " ">> \o rawText
                ELSE rawText
    IN [cues |-> PushCue(cs, [raw |-> text, character |-> None]),
        currentSceneContext |->
            IF sceneContextEffectivelyApplied THEN None ELSE ctx]

\* TranscriptParser._finalizeAndAddCue on (state.cues, state.currentCue,
\* state.currentSceneContext): the cue list and the scene context it leaves.
\* state.currentCue is null afterwards in every case.
FinalizeAndAddCue(cs, cur, ctx) ==
    IF cur = None \/ Trim(cur[1].raw) = <<>>
    THEN [cues |-> cs, currentSceneContext |-> ctx]
    ELSE
    LET trimmed == Trim(cur[1].raw)
        ch == cur[1].character
        characterToUse ==
            IF ch # None /\ Trim(ch[1]) # <<>> THEN Some(Trim(ch[1])) ELSE None
        stripped ==
            IF StartsWith(trimmed, NullPrefix)
            THEN Substring(trimmed, Len(NullPrefix)) ELSE trimmed
        rawText == IF stripped = NullToken THEN <<>> ELSE stripped
    IN IF rawText = <<>> /\ characterToUse = None
       THEN [cues |-> cs, currentSceneContext |-> ctx]
       ELSE IF characterToUse # None
       THEN FinalizeDialogue(cs, characterToUse[1], rawText, ctx)
       ELSE FinalizeDescription(cs, rawText, ctx)

Category_CreditTestedLast(o, t) ==
    IF t = <<>> \/ FOOTER(o) \/ MOVIE_LINE(o) THEN "skip"
    ELSE IF SCENE_HEADER(t) # None THEN "sceneHeader"
    ELSE IF MOVIE_SPEAKER(o) # None THEN "movieSpeaker"
    ELSE IF CUE_START(t).matched THEN "cueStart"
    ELSE IF CREDIT_LINE(t) THEN "credit"
    ELSE "continuation"

\* The if chain of _processLine: the first test that succeeds decides.  The
\* credit and cue-start tests read the trimmed line, the footer, omitted-scene
\* and movie-speaker tests the line as read.
Category(o, t) ==
    IF CREDIT_LINE(t) THEN "credit"
    ELSE IF t = <<>> \/ FOOTER(o) \/ MOVIE_LINE(o) THEN "skip"
    ELSE IF SCENE_HEADER(t) # None THEN "sceneHeader"
    ELSE IF MOVIE_SPEAKER(o) # None THEN "movieSpeaker"
    ELSE IF CUE_START(t).matched THEN "cueStart"
    ELSE "continuation"

\* The for loop of parseTranscript is at a line of category cat.
Reading(cat) ==
    /\ parsePc = "parsing"
    /\ lineNo <= Len(lines)
    /\ Category(lines[lineNo], Trim(lines[lineNo])) = cat

\* what the history variable records when finalizing emits a cue
Emitted(fin) == IF Len(fin.cues) > Len(cues) THEN Append(cueSrc, curSrc) ELSE cueSrc

CreditLine_StartsCue ==
    /\ Reading("credit")
    /\ LET fin == FinalizeAndAddCue(cues, currentCue, currentSceneContext)
       IN /\ cues' = fin.cues
          /\ cueSrc' = Emitted(fin)
    /\ currentCue' = Some([raw |-> Trim(lines[lineNo]), character |-> None])
    /\ pendingMovieSpeaker' = None
    /\ currentSceneContext' = None
    /\ curSrc' = <<lineNo>>
    /\ lineNo' = lineNo + 1
    /\ UNCHANGED <<lines, parsePc>>
    /\ UNCHANGED <<cacheVars, searchVars>>

\* _processLine, credit branch
CreditLine ==
    /\ Reading("credit")
    /\ LET fin == FinalizeAndAddCue(cues, currentCue, currentSceneContext)
       IN /\ cues' = fin.cues
          /\ cueSrc' = Emitted(fin)
    /\ currentCue' = None
    /\ pendingMovieSpeaker' = None
    /\ currentSceneContext' = None
    /\ curSrc' = <<>>
    /\ lineNo' = lineNo + 1
    /\ UNCHANGED <<lines, parsePc>>
    /\ UNCHANGED <<cacheVars, searchVars>>

SkippedLine_ClearsPending ==
    /\ Reading("skip")
    /\ LET fin == FinalizeAndAddCue(cues, currentCue, currentSceneContext)
       IN /\ cues' = fin.cues
          /\ cueSrc' = Emitted(fin)
          /\ currentSceneContext' = fin.currentSceneContext
    /\ currentCue' = None
    /\ pendingMovieSpeaker' = None
    /\ curSrc' = <<>>
    /\ lineNo' = lineNo + 1
    /\ UNCHANGED <<lines, parsePc>>
    /\ UNCHANGED <<cacheVars, searchVars>>

\* _processLine, footer / empty / omitted-scene branch
SkippedLine ==
    /\ Reading("skip")
    /\ LET fin == FinalizeAndAddCue(cues, currentCue, currentSceneContext)
       IN /\ cues' = fin.cues
          /\ cueSrc' = Emitted(fin)
          /\ currentSceneContext' = fin.currentSceneContext
    /\ currentCue' = None
    /\ curSrc' = <<>>
    /\ lineNo' = lineNo + 1
    /\ UNCHANGED <<lines, parsePc, pendingMovieSpeaker>>
    /\ UNCHANGED <<cacheVars, searchVars>>

SceneHeaderLine_KeepsPending ==
    /\ Reading("sceneHeader")
    /\ LET fin == FinalizeAndAddCue(cues, currentCue, currentSceneContext)
           sceneHeaderMatch == SCENE_HEADER(Trim(lines[lineNo]))
       IN /\ cues' = fin.cues
          /\ cueSrc' = Emitted(fin)
          /\ currentSceneContext' = Some(CollapseWs(Trim(sceneHeaderMatch[1])))
    /\ currentCue' = None
    /\ curSrc' = <<>>
    /\ lineNo' = lineNo + 1
    /\ UNCHANGED <<lines, parsePc, pendingMovieSpeaker>>
    /\ UNCHANGED <<cacheVars, searchVars>>

\* _processLine, scene header branch
SceneHeaderLine ==
    /\ Reading("sceneHeader")
    /\ LET fin == FinalizeAndAddCue(cues, currentCue, currentSceneContext)
           sceneHeaderMatch == SCENE_HEADER(Trim(lines[lineNo]))
       IN /\ cues' = fin.cues
          /\ cueSrc' = Emitted(fin)
          /\ currentSceneContext' = Some(CollapseWs(Trim(sceneHeaderMatch[1])))
    /\ pendingMovieSpeaker' = None
    /\ currentCue' = None
    /\ curSrc' = <<>>
    /\ lineNo' = lineNo + 1
    /\ UNCHANGED <<lines, parsePc>>
    /\ UNCHANGED <<cacheVars, searchVars>>

\* _processLine, movie speaker branch
MovieSpeakerLine ==
    /\ Reading("movieSpeaker")
    /\ LET fin == FinalizeAndAddCue(cues, currentCue, currentSceneContext)
           movieSpeakerMatch == MOVIE_SPEAKER(lines[lineNo])
       IN /\ cues' = fin.cues
          /\ cueSrc' = Emitted(fin)
          /\ currentSceneContext' = fin.currentSceneContext
          /\ pendingMovieSpeaker' = Some(Trim(movieSpeakerMatch[1]))
    /\ currentCue' = None
    /\ curSrc' = <<>>
    /\ lineNo' = lineNo + 1
    /\ UNCHANGED <<lines, parsePc>>
    /\ UNCHANGED <<cacheVars, searchVars>>

MatchedCharacterName_WrongGroup(cueStartMatch) == None

\* cueStartMatch[1] ? cueStartMatch[1].trim() : undefined
MatchedCharacterName(cueStartMatch) ==
    IF cueStartMatch.speaker # None /\ cueStartMatch.speaker[1] # <<>>
    THEN Some(Trim(cueStartMatch.speaker[1])) ELSE None

\* _processLine, cue-start branch
CueStartLine ==
    /\ Reading("cueStart")
    /\ LET t == Trim(lines[lineNo])
           fin == FinalizeAndAddCue(cues, currentCue, currentSceneContext)
       IN /\ cues' = fin.cues
          /\ cueSrc' = Emitted(fin)
          /\ currentSceneContext' = fin.currentSceneContext
          /\ currentCue' = Some([raw |-> t, character |-> MatchedCharacterName(CUE_START(t))])
    /\ pendingMovieSpeaker' = None
    /\ curSrc' = <<lineNo>>
    /\ lineNo' = lineNo + 1
    /\ UNCHANGED <<lines, parsePc>>
    /\ UNCHANGED <<cacheVars, searchVars>>

\* JavaScript truthiness of state.pendingMovieSpeaker
SpeakerPending == pendingMovieSpeaker # None /\ pendingMovieSpeaker[1] # <<>>

PendingSpeakerLine_KeepsPending ==
    /\ Reading("continuation")
    /\ SpeakerPending
    /\ LET fin == FinalizeAndAddCue(cues, currentCue, currentSceneContext)
       IN /\ cues' = fin.cues
          /\ cueSrc' = Emitted(fin)
          /\ currentSceneContext' = fin.currentSceneContext
    /\ currentCue' = Some([raw |-> Trim(lines[lineNo]), character |-> pendingMovieSpeaker])
    /\ curSrc' = <<lineNo>>
    /\ lineNo' = lineNo + 1
    /\ UNCHANGED <<lines, parsePc, pendingMovieSpeaker>>
    /\ UNCHANGED <<cacheVars, searchVars>>

\* _processLine, continuation with a pending movie speaker
PendingSpeakerLine ==
    /\ Reading("continuation")
    /\ SpeakerPending
    /\ LET fin == FinalizeAndAddCue(cues, currentCue, currentSceneContext)
       IN /\ cues' = fin.cues
          /\ cueSrc' = Emitted(fin)
          /\ currentSceneContext' = fin.currentSceneContext
    /\ currentCue' = Some([raw |-> Trim(lines[lineNo]), character |-> pendingMovieSpeaker])
    /\ pendingMovieSpeaker' = None
    /\ curSrc' = <<lineNo>>
    /\ lineNo' = lineNo + 1
    /\ UNCHANGED <<lines, parsePc>>
    /\ UNCHANGED <<cacheVars, searchVars>>

ContinueCue_NoSpace ==
    /\ Reading("continuation")
    /\ ~SpeakerPending
    /\ currentCue # None
    /\ currentCue' = Some([currentCue[1] EXCEPT !.raw = @ \o Trim(lines[lineNo])])
    /\ curSrc' = Append(curSrc, lineNo)
    /\ lineNo' = lineNo + 1
    /\ UNCHANGED <<lines, parsePc, cues, cueSrc, pendingMovieSpeaker, currentSceneContext>>
    /\ UNCHANGED <<cacheVars, searchVars>>

\* _processLine, continuation of the cue in progress
ContinueCue ==
    /\ Reading("continuation")
    /\ ~SpeakerPending
    /\ currentCue # None
    /\ currentCue' = Some([currentCue[1] EXCEPT
                             !.raw = @ \o <<" ">> \o Trim(lines[lineNo])])
    /\ curSrc' = Append(curSrc, lineNo)
    /\ lineNo' = lineNo + 1
    /\ UNCHANGED <<lines, parsePc, cues, cueSrc, pendingMovieSpeaker, currentSceneContext>>
    /\ UNCHANGED <<cacheVars, searchVars>>

\* _processLine, continuation that starts a description
NewDescription ==
    /\ Reading("continuation")
    /\ ~SpeakerPending
    /\ currentCue = None
    /\ LET fin == FinalizeAndAddCue(cues, currentCue, currentSceneContext)
       IN /\ cues' = fin.cues
          /\ cueSrc' = Emitted(fin)
          /\ currentSceneContext' = fin.currentSceneContext
    /\ currentCue' = Some([raw |-> Trim(lines[lineNo]), character |-> None])
    /\ curSrc' = <<lineNo>>
    /\ lineNo' = lineNo + 1
    /\ UNCHANGED <<lines, parsePc, pendingMovieSpeaker>>
    /\ UNCHANGED <<cacheVars, searchVars>>

EndOfInput_DropsCue ==
    /\ parsePc = "parsing"
    /\ lineNo = Len(lines) + 1
    /\ currentCue' = None
    /\ curSrc' = <<>>
    /\ parsePc' = "done"
    /\ UNCHANGED <<lines, lineNo, pendingMovieSpeaker, cues, cueSrc, currentSceneContext>>
    /\ UNCHANGED <<cacheVars, searchVars>>

\* parseTranscript after the loop: "Add the very last cue"
EndOfInput ==
    /\ parsePc = "parsing"
    /\ lineNo = Len(lines) + 1
    /\ LET fin == FinalizeAndAddCue(cues, currentCue, currentSceneContext)
       IN /\ cues' = fin.cues
          /\ cueSrc' = Emitted(fin)
          /\ currentSceneContext' = fin.currentSceneContext
    /\ currentCue' = None
    /\ curSrc' = <<>>
    /\ parsePc' = "done"
    /\ UNCHANGED <<lines, lineNo, pendingMovieSpeaker>>
    /\ UNCHANGED <<cacheVars, searchVars>>

\* parseTranscript: the fresh ParsingState
\* the parser is run on its own: no cache call is made
CacheUnused ==
    /\ persistentCacheEnabled = FALSE
    /\ defaultTtlSeconds = None
    /\ store = <<>>
    /\ disk = <<>>
    /\ dirExists = FALSE
    /\ now = 0
    /\ calls = <<>>
    /\ issued = 0
    /\ done = <<>>
    /\ latest = <<>>
    /\ ioFailed = FALSE
    /\ parseCalls = <<>>

ParseInit ==
    /\ lines \in Inputs(MaxLines) \cup Examples \cup Probes
    /\ lineNo = 1
    /\ parsePc = "parsing"
    /\ cues = <<>>
    /\ currentCue = None
    /\ pendingMovieSpeaker = None
    /\ currentSceneContext = None
    /\ curSrc = <<>>
    /\ cueSrc = <<>>
    /\ CacheUnused
    /\ SearchUnused

ParseNext ==
    \/ CreditLine
    \/ SkippedLine
    \/ SceneHeaderLine
    \/ MovieSpeakerLine
    \/ CueStartLine
    \/ PendingSpeakerLine
    \/ ContinueCue
    \/ NewDescription
    \/ EndOfInput

(***************************************************************************)
(* Properties of the cue assembler.                                        *)
(***************************************************************************)
Done == parsePc = "done"
CategoryOfLine(i) == Category(lines[i], Trim(lines[i]))
\* p occurs somewhere in s
Contains(s, p) == \E i \in 1..Len(s) - Len(p) + 1 : StartsAt(s, i, p)
Cue(text, speaker) == [raw |-> text, character |-> speaker]

\* C1: every cue of the emitted list has text that is not blank, and every
\* cue with a speaker has text that begins with that speaker and ": ".
C1_CueInvariant ==
    \A i \in 1..Len(cues) :
        /\ Trim(cues[i].raw) # <<>>
        /\ cues[i].character # None =>
               StartsWith(cues[i].raw, cues[i].character[1] \o <<":", " ">>)

\* a finished parse that emitted a description and a dialogue cue whose source
\* line did not carry the speaker prefix
C1_Witness ==
    /\ Done
    /\ \E i, j \in 1..Len(cues) :
          /\ cues[i].character = None
          /\ cues[j].character # None
          /\ ~StartsWith(Trim(lines[cueSrc[j][1]]), cues[j].character[1])

\* C2: the end-to-end input yields exactly the three cues PICARD: Make it so.,
\* (He sits.) and RIKER: Aye, Captain., built from lines 2, 3 and 5: header,
\* label, omission and footer give no cue, the parenthetical gets no prefix.
C2_EndToEnd ==
    (Done /\ lines = EndToEnd) =>
        /\ cues = <<Cue(<<"P","I","C","A","R","D",":"," ","M","a","k","e"," ","i","t"," ","s","o",".">>, Some(<<"P","I","C","A","R","D">>)),
                    Cue(<<"(","H","e"," ","s","i","t","s",".",")">>, None),
                    Cue(<<"R","I","K","E","R",":"," ","A","y","e",","," ","C","a","p","t","a","i","n",".">>, Some(<<"R","I","K","E","R">>))>>
        /\ cueSrc = <<<<2>>, <<3>>, <<5>>>>

C2_Witness == Done /\ lines = EndToEnd /\ Len(cues) = 3

\* A line of the form "S: body" that the classifier takes as an inline
\* speaker line with captured speaker S.
IsInlineDialogue(l) ==
    LET m == CUE_START(Trim(l))
    IN /\ Category(l, Trim(l)) = "cueStart"
       /\ m.speaker # None
       /\ StartsWith(l, m.speaker[1] \o <<":", " ">>)
       /\ Len(l) > Len(m.speaker[1]) + 2
       /\ l[Len(m.speaker[1]) + 3] \notin WhiteSpace
       /\ l[Len(l)] \notin WhiteSpace

\* the text between the numbers of a scene header line
InnerText(l) == Trim(SCENE_HEADER(Trim(l))[1])

HeaderDescriptionDialogue ==
    /\ Len(lines) = 3
    /\ CategoryOfLine(1) = "sceneHeader"
    /\ CategoryOfLine(2) = "continuation"
    /\ IsInlineDialogue(lines[3])

\* C3 as stated: header with inner text C, description D, dialogue "S: body"
\* yield the cues "[C] D" and {S, "S: body"}.
C3_AsStated ==
    (Done /\ HeaderDescriptionDialogue) =>
        cues = <<Cue(<<"[">> \o InnerText(lines[1]) \o <<"]", " ">> \o Trim(lines[2]), None),
                 Cue(lines[3], CUE_START(lines[3]).speaker)>>

\* C3 (amended): a scene header whose inner text C is not blank, a description
\* line D and an inline dialogue line "S: body" yield exactly two cues: the
\* speaker-less "[C'] D", C' being C with every run of two or more whitespace
\* characters replaced by one space, then {S, "S: body"}.
C3_SceneContextPropagation ==
    (Done /\ HeaderDescriptionDialogue /\ InnerText(lines[1]) # <<>>) =>
        cues = <<Cue(<<"[">> \o CollapseWs(InnerText(lines[1])) \o <<"]", " ">>
                         \o Trim(lines[2]), None),
                 Cue(lines[3], CUE_START(lines[3]).speaker)>>

C3_Witness ==
    /\ Done /\ HeaderDescriptionDialogue
    /\ InnerText(lines[1]) # CollapseWs(InnerText(lines[1]))
    /\ Len(cues) = 2

LabelThenText ==
    /\ Len(lines) = 2
    /\ CategoryOfLine(1) = "movieSpeaker"
    /\ CategoryOfLine(2) = "continuation"

LabelName == Trim(MOVIE_SPEAKER(lines[1])[1])

\* C4 as stated: a movie speaker label S followed by a plain text line L
\* yields the single cue {S, "S: L"}.
C4_AsStated ==
    (Done /\ LabelThenText) =>
        cues = <<Cue(LabelName \o <<":", " ">> \o Trim(lines[2]), Some(LabelName))>>

\* L begins with "S:" when letter case is ignored
RepeatsLabel(l) == StartsWith(ToUpperCase(Trim(l)), ToUpperCase(LabelName) \o <<":">>)

\* C4 (amended): a movie speaker label S followed by a plain text line L
\* yields exactly one cue, built from L alone, with speaker S; its text is
\* "S: L", except that when L itself begins with "S:" (letter case ignored)
\* that prefix is removed from L first and the rest trimmed.
C4_MovieSpeakerCarryOver ==
    (Done /\ LabelThenText) =>
        /\ cueSrc = <<<<2>>>>
        /\ cues = <<Cue(LabelName \o <<":", " ">> \o
                          (IF RepeatsLabel(lines[2])
                           THEN Trim(Substring(Trim(lines[2]), Len(LabelName) + 1))
                           ELSE Trim(lines[2])),
                        Some(LabelName))>>

C4_Witness == Done /\ LabelThenText /\ RepeatsLabel(lines[2]) /\ Len(cues) = 1

\* C5: a line classified as credit contributes to no emitted cue (no cue is
\* started from it or continued with it), and its text occurs in no emitted
\* cue's text.
C5_CreditSuppression ==
    /\ Len(cueSrc) = Len(cues)
    /\ \A j \in 1..Len(cues) :
          /\ \A k \in 1..Len(cueSrc[j]) : ~CREDIT_LINE(Trim(lines[cueSrc[j][k]]))
          /\ \A i \in 1..lineNo - 1 :
                CREDIT_LINE(Trim(lines[i])) => ~Contains(cues[j].raw, Trim(lines[i]))

\* a credit line was read after a cue had been started, and cues were emitted
\* before and after it
C5_Witness ==
    /\ Done
    /\ \E i \in 2..Len(lines) - 1 :
          /\ CREDIT_LINE(Trim(lines[i]))
          /\ \E j, k \in 1..Len(cues) : cueSrc[j][1] < i /\ cueSrc[k][1] > i

\* C6: once a file is parsed, every line classified as an inline speaker line
\* with captured speaker S has started exactly one emitted cue, whose speaker
\* is trim(S) and whose text starts with "S: ".
C6_InlineSpeakerCue ==
    Done =>
        \A i \in 1..Len(lines) :
            LET m == CUE_START(Trim(lines[i]))
            IN (CategoryOfLine(i) = "cueStart" /\ m.speaker # None) =>
                  /\ Cardinality({j \in 1..Len(cues) : cueSrc[j][1] = i}) = 1
                  /\ \A j \in 1..Len(cues) :
                        cueSrc[j][1] = i =>
                            /\ cues[j].character = Some(Trim(m.speaker[1]))
                            /\ StartsWith(cues[j].raw, m.speaker[1] \o <<":", " ">>)

\* a parsed file with an inline speaker line that follows a parenthetical
\* aside, so that the line itself does not begin with the speaker
C6_Witness ==
    /\ Done
    /\ \E i \in 1..Len(lines) :
          /\ CategoryOfLine(i) = "cueStart"
          /\ CUE_START(Trim(lines[i])).speaker # None
          /\ ~StartsWith(Trim(lines[i]), CUE_START(Trim(lines[i])).speaker[1])
(***************************************************************************)
(* The cache service: src/services/cache.ts over src/utils/file.ts.        *)
(***************************************************************************)
MaxNow == 1001
MaxCalls == 3
MaxInFlight == 2
MsPerSecond == 1000

Keys == {"k1"}
\* values given to set: a cue list, and a number that JSON cannot represent
Values == {"cuesB", "NaN"}
\* the cue list cached by an earlier process
OldValue == "cuesA"
\* the ttlSeconds argument of set: omitted, 0 or 1
TtlArgs == {None, Some(0), Some(1)}
Slots == 1..MaxInFlight
\* the clock readings that are told apart: whole seconds, and 1 ms after them
Instants == {t \in 0..MaxNow : t % MsPerSecond \in {0, 1}}

\* interface CacheItem<T> { value: T; expiry?: number }
CacheItem(v, e) == [value |-> v, expiry |-> e]

\* memItem.expiry && memItem.expiry < Date.now()
IsStale_SecondsForMillis(item, t) ==
    item.expiry # None /\ item.expiry[1] # 0 /\ item.expiry[1] < t \div 1000

IsStale(item, t) ==
    item.expiry # None /\ item.expiry[1] # 0 /\ item.expiry[1] < t

NewItem_ExpiryIsTtl(v, ttlSeconds, t) ==
    LET ttlToUse == IF ttlSeconds # None THEN ttlSeconds ELSE defaultTtlSeconds
    IN IF ttlToUse # None /\ ttlToUse[1] # 0 /\ ttlToUse[1] > 0
       THEN CacheItem(v, Some(ttlToUse[1] * MsPerSecond))
       ELSE CacheItem(v, None)

NewItem_ZeroUsesDefault(v, ttlSeconds, t) ==
    LET ttlToUse == IF ttlSeconds # None /\ ttlSeconds[1] # 0
                    THEN ttlSeconds ELSE defaultTtlSeconds
    IN IF ttlToUse # None /\ ttlToUse[1] # 0 /\ ttlToUse[1] > 0
       THEN CacheItem(v, Some(t + ttlToUse[1] * MsPerSecond))
       ELSE CacheItem(v, None)

\* set: ttlToUse and the cacheItem built from it at time t
NewItem(v, ttlSeconds, t) ==
    LET ttlToUse == IF ttlSeconds # None THEN ttlSeconds ELSE defaultTtlSeconds
    IN IF ttlToUse # None /\ ttlToUse[1] # 0 /\ ttlToUse[1] > 0
       THEN CacheItem(v, Some(t + ttlToUse[1] * MsPerSecond))
       ELSE CacheItem(v, None)

JsonStringify_DropsExpiry(item) == CacheItem(item.value, None)

\* JSON.stringify(cacheItem, null, 2): the text written. A number that is not
\* finite is written as null; an absent expiry is left out.
JsonStringify(item) ==
    CacheItem(IF item.value = "NaN" THEN "null" ELSE item.value, item.expiry)

JsonParse_DropsExpiry(text) == CacheItem(text.value, None)

\* JSON.parse of a text written by JsonStringify
JsonParse(text) == CacheItem(text.value, text.expiry)

\* The content of a key's file: no file, a file that is empty or cut short,
\* or a complete JSON text.
AbsentFile == [kind |-> "absent", text |-> None]
PartialFile == [kind |-> "partial", text |-> None]
JsonFile(text) == [kind |-> "json", text |-> Some(text)]

\* Complete JSON texts that were not written by set: one that JSON.parse turns
\* into a falsy value (null, 0, false, ""), and one it turns into a truthy
\* value with neither a value nor an expiry property (a number, an array, {}).
FalsyJsonFile == [kind |-> "falsy", text |-> None]
OtherJsonFile == [kind |-> "other", text |-> None]

\* fileCacheItem for OtherJsonFile: .value and .expiry are undefined
OtherItem == CacheItem("undefined", None)

\* this.namespace as the path segments path.join(basePath, namespace) adds to
\* basePath
Namespace == <<"transcripts">>

\* files persisted by other CacheService instances over the same basePath: key
\* k1 of the namespaces 'other' and 'transcripts/v2'
OtherFiles == {"other/k1.json", "transcripts/v2/k1.json"}

\* getFilePath: the path of a file below basePath
PathOf(f) ==
    CASE f = "other/k1.json" -> <<"other", "k1.json">>
      [] f = "transcripts/v2/k1.json" -> <<"transcripts", "v2", "k1.json">>
      [] OTHER -> Namespace \o <<f>>

\* fileUtils.fileExists: fs.access succeeds
FileExists(key) == dirExists /\ disk[key].kind # "absent"

\* files a previous process may have left behind
LeftOverFiles ==
    {AbsentFile, PartialFile,
     JsonFile(JsonStringify(CacheItem(OldValue, None))),
     JsonFile(JsonStringify(CacheItem(OldValue, Some(MsPerSecond))))}

\* files the cache directory may hold when something else wrote into it
ForeignFiles == {FalsyJsonFile, OtherJsonFile}

Idle ==
    [op |-> "idle", key |-> "", pc |-> "", item |-> None, file |-> AbsentFile,
     flag |-> FALSE, from |-> 0, expired |-> None, failed |-> FALSE]

Quiet == \A c \in Slots : calls[c] = Idle

\* a call can be made in slot c: the lowest free slot, calls left to make
Free(c) ==
    /\ issued < MaxCalls
    /\ calls[c] = Idle
    /\ \A d \in 1..c - 1 : calls[d] # Idle

At(c, op, pc) == calls[c].op = op /\ calls[c].pc = pc

\* history of a key: nothing known, the entry a set has put in memory, a
\* delete or clearNamespace under way, or one that has completed with no set
\* made since it was called
Unknown == [kind |-> "unknown", item |-> None]
Written(item) == [kind |-> "set", item |-> Some(item)]
Removing == [kind |-> "removing", item |-> None]
Removed == [kind |-> "removed", item |-> None]

\* the history once the call op(key) has been made; item is the entry of a set
Issue(op, key, item) ==
    IF op = "set" THEN [latest EXCEPT ![key] = Written(item[1])]
    ELSE IF op = "delete" THEN [latest EXCEPT ![key] = Removing]
    ELSE IF op = "clearNamespace" THEN [k \in Keys |-> Removing]
    ELSE latest

\* the history h once the call op(key) has completed
Complete(h, op, key, failed) ==
    LET after(k) == IF h[k] # Removing THEN h[k]
                    ELSE IF failed THEN Unknown ELSE Removed
    IN IF op = "delete" THEN [h EXCEPT ![key] = after(key)]
       ELSE IF op = "clearNamespace" THEN [k \in Keys |-> after(k)]
       ELSE h

\* the call runs up to an await and is suspended there
Suspend(c, call) ==
    /\ calls' = [calls EXCEPT ![c] = call]
    /\ latest' = IF calls[c] = Idle THEN Issue(call.op, call.key, call.item) ELSE latest
    /\ UNCHANGED done

\* the call's promise is settled with result; item is the cache item stored
\* (set) or served (get)
Return(c, op, key, item, result, from, expired, failed) ==
    /\ calls' = [calls EXCEPT ![c] = Idle]
    /\ done' = <<[op |-> op, key |-> key, item |-> item, result |-> result,
                  from |-> from, at |-> now, expired |-> expired,
                  failed |-> failed]>>
    /\ latest' = Complete(IF calls[c] = Idle THEN Issue(op, key, item) ELSE latest,
                          op, key, failed)

ReturnFrom(c, item, result) ==
    Return(c, calls[c].op, calls[c].key, item, result, calls[c].from,
           calls[c].expired, calls[c].failed)

Goto(c, pc) == Suspend(c, [calls[c] EXCEPT !.pc = pc])

\* history: the entry in effect for key when a get is made (the one in memory,
\* else the one in the key's file), if the clock has passed its expiry
EntryExpired(key) ==
    LET entry == IF store[key] # None THEN store[key]
                 ELSE IF persistentCacheEnabled /\ disk[key].kind = "json"
                      THEN Some(CacheItem(disk[key].text[1].value, disk[key].text[1].expiry))
                      ELSE None
    IN IF entry # None /\ entry[1].expiry # None /\ entry[1].expiry[1] < now
       THEN entry ELSE None

CacheFrame ==
    UNCHANGED <<persistentCacheEnabled, defaultTtlSeconds, parseCalls, parserVars,
                searchVars>>

\* get(key), up to its first await
GetStart(c, key) ==
    /\ issued' = issued + 1
    /\ LET memItem == store[key]
           call == [op |-> "get", key |-> key, pc |-> "exists", item |-> None,
                    file |-> AbsentFile, flag |-> FALSE, from |-> now, expired |-> EntryExpired(key),
                    failed |-> FALSE]
       IN IF memItem # None /\ IsStale(memItem[1], now)
          THEN /\ store' = [store EXCEPT ![key] = None]
               /\ IF persistentCacheEnabled
                  THEN Suspend(c, [call EXCEPT !.pc = "staleExists"])
                  ELSE Return(c, "get", key, None, "undefined", now, call.expired, FALSE)
          ELSE /\ UNCHANGED store
               /\ IF memItem # None
                  THEN Return(c, "get", key, memItem, memItem[1].value, now,
                              call.expired, FALSE)
                  ELSE IF persistentCacheEnabled
                       THEN Suspend(c, call)
                       ELSE Return(c, "get", key, None, "undefined", now,
                                   call.expired, FALSE)
    /\ UNCHANGED <<disk, dirExists, now, ioFailed>>

\* a get(key) made by a caller of the cache service
GetCall(c, key) ==
    /\ Free(c)
    /\ GetStart(c, key)
    /\ CacheFrame

\* get, in-memory stale path: await fileUtils.fileExists(filePath)
GetStaleExists(c) ==
    /\ At(c, "get", "staleExists")
    /\ IF FileExists(calls[c].key)
       THEN Goto(c, "staleUnlink")
       ELSE ReturnFrom(c, None, "undefined")
    /\ UNCHANGED <<store, disk, dirExists, now, issued, ioFailed>>
    /\ CacheFrame

\* get, in-memory stale path: await fileUtils.deleteFile(filePath), a failure
\* is logged
GetStaleUnlink(c) ==
    /\ At(c, "get", "staleUnlink")
    /\ disk' = [disk EXCEPT ![calls[c].key] = AbsentFile]
    /\ ReturnFrom(c, None, "undefined")
    /\ UNCHANGED <<store, dirExists, now, issued, ioFailed>>
    /\ CacheFrame

\* get, memory miss: await fileUtils.fileExists(filePath)
GetExists(c) ==
    /\ At(c, "get", "exists")
    /\ IF FileExists(calls[c].key)
       THEN Goto(c, "read")
       ELSE ReturnFrom(c, None, "undefined")
    /\ UNCHANGED <<store, disk, dirExists, now, issued, ioFailed>>
    /\ CacheFrame

\* get, memory miss: fs.readFile of readJsonFile takes the file's content
GetRead(c) ==
    /\ At(c, "get", "read")
    /\ Suspend(c, [calls[c] EXCEPT !.pc = "parsed", !.file = disk[calls[c].key]])
    /\ UNCHANGED <<store, disk, dirExists, now, issued, ioFailed>>
    /\ CacheFrame

\* get, memory miss: the await of readJsonFile is resumed. JSON.parse throws on
\* an empty or cut file, readFile on a file that is gone; a falsy fileCacheItem
\* skips the if block and get returns undefined; otherwise the item is tested
\* for staleness and installed in memory.
GetResume(c) ==
    /\ At(c, "get", "parsed")
    /\ LET key == calls[c].key
           file == calls[c].file
       IN IF file.kind \in {"absent", "partial"}
          THEN /\ Goto(c, "unlinkCorrupt")
               /\ UNCHANGED store
          ELSE IF file.kind = "falsy"
          THEN /\ ReturnFrom(c, None, "undefined")
               /\ UNCHANGED store
          ELSE IF file.kind = "other"
          THEN /\ store' = [store EXCEPT ![key] = Some(OtherItem)]
               /\ ReturnFrom(c, Some(OtherItem), OtherItem.value)
          ELSE LET fileCacheItem == JsonParse(file.text[1])
               IN IF IsStale(fileCacheItem, now)
                  THEN /\ Goto(c, "unlinkStale")
                       /\ UNCHANGED store
                  ELSE /\ store' = [store EXCEPT ![key] = Some(fileCacheItem)]
                       /\ ReturnFrom(c, Some(fileCacheItem), fileCacheItem.value)
    /\ UNCHANGED <<disk, dirExists, now, issued, ioFailed>>
    /\ CacheFrame

\* get, persisted stale path: await fileUtils.deleteFile(filePath) inside the
\* try; when the file is gone unlink throws and the catch block runs
GetUnlinkStale(c) ==
    /\ At(c, "get", "unlinkStale")
    /\ IF FileExists(calls[c].key)
       THEN /\ disk' = [disk EXCEPT ![calls[c].key] = AbsentFile]
            /\ ReturnFrom(c, None, "undefined")
       ELSE /\ Goto(c, "unlinkCorrupt")
            /\ UNCHANGED disk
    /\ UNCHANGED <<store, dirExists, now, issued, ioFailed>>
    /\ CacheFrame

\* get, catch block: try { await fileUtils.deleteFile(filePath) } catch {}
GetUnlinkCorrupt(c) ==
    /\ At(c, "get", "unlinkCorrupt")
    /\ disk' = [disk EXCEPT ![calls[c].key] = AbsentFile]
    /\ ReturnFrom(c, None, "undefined")
    /\ UNCHANGED <<store, dirExists, now, issued, ioFailed>>
    /\ CacheFrame

\* set(key, value, ttlSeconds) up to its await: memory is written, the JSON
\* text is built by writeJsonFile and fs.writeFile is started
SetStart(c, key, value, ttlSeconds) ==
    /\ issued' = issued + 1
    /\ LET cacheItem == NewItem(value, ttlSeconds, now)
       IN /\ store' = [store EXCEPT ![key] = Some(cacheItem)]
          /\ IF persistentCacheEnabled
             THEN Suspend(c, [op |-> "set", key |-> key, pc |-> "open",
                              item |-> Some(cacheItem),
                              file |-> JsonFile(JsonStringify(cacheItem)),
                              flag |-> FALSE, from |-> now, expired |-> None,
                              failed |-> FALSE])
             ELSE Return(c, "set", key, Some(cacheItem), "void", now, None, FALSE)
    /\ UNCHANGED <<disk, dirExists, now, ioFailed>>

\* a set(key, value, ttlSeconds) made by a caller of the cache service
SetCall(c, key, value, ttlSeconds) ==
    /\ Free(c)
    /\ SetStart(c, key, value, ttlSeconds)
    /\ CacheFrame

\* fs.writeFile opens the file with flag 'w': it is created or cut to length
\* 0; without the directory the open fails and set logs the error
SetOpen(c) ==
    /\ At(c, "set", "open")
    /\ IF dirExists
       THEN /\ disk' = [disk EXCEPT ![calls[c].key] = PartialFile]
            /\ Goto(c, "write")
       ELSE /\ UNCHANGED disk
            /\ Return(c, "set", calls[c].key, calls[c].item, "void",
                      calls[c].from, None, TRUE)
    /\ UNCHANGED <<store, dirExists, now, issued, ioFailed>>
    /\ CacheFrame

\* fs.writeFile writes the text and closes; a file unlinked since the open
\* stays unlinked
SetWrite(c) ==
    /\ At(c, "set", "write")
    /\ disk' = IF disk[calls[c].key].kind = "absent" THEN disk
               ELSE [disk EXCEPT ![calls[c].key] = calls[c].file]
    /\ ReturnFrom(c, calls[c].item, "void")
    /\ UNCHANGED <<store, dirExists, now, issued, ioFailed>>
    /\ CacheFrame

\* has(key), up to its first await; a stale in-memory entry is reported absent
\* and left in place
HasCall(c, key) ==
    /\ Free(c)
    /\ issued' = issued + 1
    /\ LET memItem == store[key]
       IN IF memItem # None
          THEN Return(c, "has", key, None,
                      IF IsStale(memItem[1], now) THEN "false" ELSE "true",
                      now, None, FALSE)
          ELSE IF persistentCacheEnabled
               THEN Suspend(c, [op |-> "has", key |-> key, pc |-> "exists",
                                item |-> None, file |-> AbsentFile, flag |-> FALSE,
                                from |-> now, expired |-> None, failed |-> FALSE])
               ELSE Return(c, "has", key, None, "false", now, None, FALSE)
    /\ UNCHANGED <<store, disk, dirExists, now, ioFailed>>
    /\ CacheFrame

\* has: await fileUtils.fileExists(filePath)
HasExists(c) ==
    /\ At(c, "has", "exists")
    /\ IF FileExists(calls[c].key)
       THEN Goto(c, "read")
       ELSE ReturnFrom(c, None, "false")
    /\ UNCHANGED <<store, disk, dirExists, now, issued, ioFailed>>
    /\ CacheFrame

\* has: fs.readFile of readJsonFile takes the file's content
HasRead(c) ==
    /\ At(c, "has", "read")
    /\ Suspend(c, [calls[c] EXCEPT !.pc = "parsed", !.file = disk[calls[c].key]])
    /\ UNCHANGED <<store, disk, dirExists, now, issued, ioFailed>>
    /\ CacheFrame

\* has: the await of readJsonFile is resumed; an error makes has return false
HasResume(c) ==
    /\ At(c, "has", "parsed")
    /\ LET file == calls[c].file
       IN IF file.kind \in {"absent", "partial", "falsy"}
          THEN ReturnFrom(c, None, "false")
          ELSE IF file.kind = "other"
          THEN ReturnFrom(c, None, "true")
          ELSE IF IsStale(JsonParse(file.text[1]), now)
               THEN Goto(c, "unlink")
               ELSE ReturnFrom(c, None, "true")
    /\ UNCHANGED <<store, disk, dirExists, now, issued, ioFailed>>
    /\ CacheFrame

\* has, persisted stale path: await fileUtils.deleteFile(filePath); has
\* returns false whether or not unlink throws
HasUnlink(c) ==
    /\ At(c, "has", "unlink")
    /\ disk' = [disk EXCEPT ![calls[c].key] = AbsentFile]
    /\ ReturnFrom(c, None, "false")
    /\ UNCHANGED <<store, dirExists, now, issued, ioFailed>>
    /\ CacheFrame

\* delete(key), up to its await; flag is memDeleted
DeleteCall(c, key) ==
    /\ Free(c)
    /\ issued' = issued + 1
    /\ store' = [store EXCEPT ![key] = None]
    /\ LET memDeleted == store[key] # None
       IN IF persistentCacheEnabled
          THEN Suspend(c, [op |-> "delete", key |-> key, pc |-> "exists",
                           item |-> None, file |-> AbsentFile, flag |-> memDeleted,
                           from |-> now, expired |-> None, failed |-> FALSE])
          ELSE Return(c, "delete", key, None,
                      IF memDeleted THEN "true" ELSE "false", now, None, FALSE)
    /\ UNCHANGED <<disk, dirExists, now, ioFailed>>
    /\ CacheFrame

\* delete: await fileUtils.fileExists(filePath)
DeleteExists(c) ==
    /\ At(c, "delete", "exists")
    /\ IF FileExists(calls[c].key)
       THEN Goto(c, "unlink")
       ELSE ReturnFrom(c, None, IF calls[c].flag THEN "true" ELSE "false")
    /\ UNCHANGED <<store, disk, dirExists, now, issued, ioFailed>>
    /\ CacheFrame

\* delete: await fileUtils.deleteFile(filePath); persistentDeleted stays false
\* when unlink throws because the file is gone
DeleteUnlink(c) ==
    /\ At(c, "delete", "unlink")
    /\ disk' = [disk EXCEPT ![calls[c].key] = AbsentFile]
    /\ ReturnFrom(c, None, IF calls[c].flag \/ FileExists(calls[c].key)
                           THEN "true" ELSE "false")
    /\ UNCHANGED <<store, dirExists, now, issued, ioFailed>>
    /\ CacheFrame

\* clearNamespace(), up to its await: every key of the map is removed
ClearCall(c) ==
    /\ Free(c)
    /\ issued' = issued + 1
    /\ store' = [k \in Keys |-> None]
    /\ IF persistentCacheEnabled
       THEN Suspend(c, [op |-> "clearNamespace", key |-> "", pc |-> "rm",
                        item |-> None, file |-> AbsentFile, flag |-> FALSE,
                        from |-> now, expired |-> None, failed |-> FALSE])
       ELSE Return(c, "clearNamespace", "", None, "void", now, None, FALSE)
    /\ UNCHANGED <<disk, dirExists, now, ioFailed>>
    /\ CacheFrame

\* clearNamespace: await fileUtils.deleteDirectory(persistentCachePath), an
\* fs.rm with recursive: true of everything below that path
ClearRemove(c) ==
    /\ At(c, "clearNamespace", "rm")
    /\ disk' = [f \in DOMAIN disk |->
                    IF StartsWith(PathOf(f), Namespace) THEN AbsentFile ELSE disk[f]]
    /\ dirExists' = FALSE
    /\ Goto(c, "mkdir")
    /\ UNCHANGED <<store, now, issued, ioFailed>>
    /\ CacheFrame

\* clearNamespace: await fileUtils.createDirectory(persistentCachePath)
ClearCreate(c) ==
    /\ At(c, "clearNamespace", "mkdir")
    /\ dirExists' = TRUE
    /\ ReturnFrom(c, None, "void")
    /\ UNCHANGED <<store, disk, now, issued, ioFailed>>
    /\ CacheFrame

\* time passes
Tick ==
    /\ \E t \in Instants : t > now /\ now' = t
    /\ UNCHANGED <<store, disk, dirExists, calls, issued, done, latest, ioFailed>>
    /\ CacheFrame

WriteFails_Propagates(c) ==
    /\ calls[c].op = "set"
    /\ calls[c].pc \in {"open", "write"}
    /\ ioFailed' = TRUE
    /\ store' = [store EXCEPT ![calls[c].key] = None]
    /\ Return(c, "set", calls[c].key, calls[c].item, "throws", calls[c].from, None, TRUE)
    /\ UNCHANGED <<disk, dirExists, now, issued>>
    /\ CacheFrame

\* fs.writeFile rejects: at the open the file is left as it was, after it the
\* file is left cut short; set logs the error and returns
WriteFails(c) ==
    /\ calls[c].op = "set"
    /\ calls[c].pc \in {"open", "write"}
    /\ ioFailed' = TRUE
    /\ Return(c, "set", calls[c].key, calls[c].item, "void", calls[c].from, None, TRUE)
    /\ UNCHANGED <<store, disk, dirExists, now, issued>>
    /\ CacheFrame

\* fs.unlink rejects although the file exists: the file stays, and the caller
\* of deleteFile goes on as its catch block says
DeleteFileFails(c) ==
    /\ calls[c].pc \in {"staleUnlink", "unlinkStale", "unlinkCorrupt", "unlink"}
    /\ FileExists(calls[c].key)
    /\ ioFailed' = TRUE
    /\ IF At(c, "get", "unlinkStale")
       THEN Suspend(c, [calls[c] EXCEPT !.pc = "unlinkCorrupt", !.failed = TRUE])
       ELSE Return(c, calls[c].op, calls[c].key, None,
                   IF calls[c].op = "get" THEN "undefined"
                   ELSE IF calls[c].op = "delete" /\ calls[c].flag THEN "true"
                   ELSE "false",
                   calls[c].from, calls[c].expired, TRUE)
    /\ UNCHANGED <<store, disk, dirExists, now, issued>>
    /\ CacheFrame

(***************************************************************************)
(* parseTranscript over the cache service: calls for one transcript file   *)
(* that may overlap. The file is not edited while the calls run, so every  *)
(* parse of it, that of an earlier process included, builds the same cues. *)
(***************************************************************************)
MaxParseCalls == 2
ParseCallIds == 1..MaxParseCalls

\* const cacheKey = path.basename(filePath)
CacheKey == "k1"

\* state.cues after the loop over the file's lines
FileCues == OldValue

\* a call's position, the slot of the cache call it awaits, what it returned
\* and, as history, whether it was made while another call was running, whether
\* its readFile or one of its cache calls rejected and whether it called set
NotCalled ==
    [pc |-> "none", slot |-> 0, result |-> "", overlaps |-> FALSE,
     readFailed |-> FALSE, cacheFailed |-> FALSE, wrote |-> FALSE]
Returned(call, result) == [call EXCEPT !.pc = "done", !.slot = 0, !.result = result]
Running(p) == parseCalls[p].pc \notin {"none", "done"}

\* the continuation of a parseTranscript call runs as soon as the cache call
\* it awaits has settled: before any other callback
Settled ==
    \A p \in ParseCallIds :
        parseCalls[p].pc \in {"get", "set"} => calls[parseCalls[p].slot] # Idle

AfterGet_MissReturnsNothing(call, summary) == Returned(call, summary.result)

\* if (cachedCues) return cachedCues; else await fileUtils.readFile(filePath)
AfterGet(call, summary) ==
    IF summary.result # "undefined"
    THEN Returned(call, summary.result)
    ELSE [call EXCEPT !.pc = "read", !.slot = 0]

\* parseTranscript(filePath) up to its first await: cacheService.get(cacheKey)
ParseTranscriptCall(p) ==
    /\ Settled
    /\ parseCalls[p].pc = "none"
    /\ \A q \in 1..p - 1 : parseCalls[q].pc # "none"
    /\ \E c \in Slots :
          /\ calls[c] = Idle
          /\ \A d \in 1..c - 1 : calls[d] # Idle
          /\ GetStart(c, CacheKey)
          /\ LET call == [NotCalled EXCEPT
                              !.overlaps = \E q \in ParseCallIds : Running(q)]
             IN parseCalls' = [parseCalls EXCEPT ![p] =
                                  IF calls'[c] = Idle THEN AfterGet(call, done'[1])
                                  ELSE [call EXCEPT !.pc = "get", !.slot = c]]
    /\ UNCHANGED <<persistentCacheEnabled, defaultTtlSeconds, parserVars, searchVars>>

\* the awaited get has settled
ParseGetReturns(p) ==
    /\ parseCalls[p].pc = "get"
    /\ calls[parseCalls[p].slot] = Idle
    /\ parseCalls' = [parseCalls EXCEPT ![p] = AfterGet(parseCalls[p], done[1])]
    /\ UNCHANGED <<persistentCacheEnabled, defaultTtlSeconds, store, disk,
                   dirExists, now, calls, issued, done, latest, ioFailed, parserVars,
                   searchVars>>

\* readFile has settled: the lines are processed, the last cue is finalized
\* and cacheService.set(cacheKey, state.cues) runs up to its await
ParseReadReturns(p) ==
    /\ Settled
    /\ parseCalls[p].pc = "read"
    /\ \E c \in Slots :
          /\ calls[c] = Idle
          /\ \A d \in 1..c - 1 : calls[d] # Idle
          /\ SetStart(c, CacheKey, FileCues, None)
          /\ LET call == [parseCalls[p] EXCEPT !.wrote = TRUE]
             IN parseCalls' = [parseCalls EXCEPT ![p] =
                                  IF calls'[c] = Idle THEN Returned(call, FileCues)
                                  ELSE [call EXCEPT !.pc = "set", !.slot = c,
                                                    !.result = FileCues]]
    /\ UNCHANGED <<persistentCacheEnabled, defaultTtlSeconds, parserVars, searchVars>>

\* the awaited set has settled: return state.cues
ParseSetReturns(p) ==
    /\ parseCalls[p].pc = "set"
    /\ calls[parseCalls[p].slot] = Idle
    /\ parseCalls' = [parseCalls EXCEPT ![p] =
                         Returned(parseCalls[p], parseCalls[p].result)]
    /\ UNCHANGED <<persistentCacheEnabled, defaultTtlSeconds, store, disk,
                   dirExists, now, calls, issued, done, latest, ioFailed, parserVars,
                   searchVars>>

OnGetError_Rethrows(call) ==
    Returned([call EXCEPT !.cacheFailed = TRUE], "rejected")

\* catch (err) around cacheService.get: the error is logged and the call goes
\* on to read the file
OnGetError(call) == [call EXCEPT !.pc = "read", !.slot = 0, !.cacheFailed = TRUE]

\* catch (error) around cacheService.set: the error is logged and state.cues is
\* returned
OnSetError(call) == Returned([call EXCEPT !.cacheFailed = TRUE], call.result)

\* the promise of cacheService.get, an ICacheService, rejects while the call
\* awaits it
ParseGetRejects(p) ==
    /\ parseCalls[p].pc = "get"
    /\ calls[parseCalls[p].slot] # Idle
    /\ calls' = [calls EXCEPT ![parseCalls[p].slot] = Idle]
    /\ parseCalls' = [parseCalls EXCEPT ![p] = OnGetError(parseCalls[p])]
    /\ UNCHANGED <<persistentCacheEnabled, defaultTtlSeconds, store, disk,
                   dirExists, now, issued, done, latest, ioFailed, parserVars, searchVars>>

\* await fileUtils.readFile(filePath) rejects: outside any try block, the
\* rejection is that of parseTranscript
ParseReadFails(p) ==
    /\ Settled
    /\ parseCalls[p].pc = "read"
    /\ parseCalls' = [parseCalls EXCEPT ![p] =
                         Returned([parseCalls[p] EXCEPT !.readFailed = TRUE],
                                  "rejected")]
    /\ UNCHANGED <<persistentCacheEnabled, defaultTtlSeconds, store, disk,
                   dirExists, now, calls, issued, done, latest, ioFailed, parserVars,
                   searchVars>>

\* the promise of cacheService.set rejects while the call awaits it
ParseSetRejects(p) ==
    /\ parseCalls[p].pc = "set"
    /\ calls[parseCalls[p].slot] # Idle
    /\ calls' = [calls EXCEPT ![parseCalls[p].slot] = Idle]
    /\ parseCalls' = [parseCalls EXCEPT ![p] = OnSetError(parseCalls[p])]
    /\ UNCHANGED <<persistentCacheEnabled, defaultTtlSeconds, store, disk,
                   dirExists, now, issued, done, latest, ioFailed, parserVars, searchVars>>

ParserIdle ==
    /\ lines = <<>>
    /\ lineNo = 1
    /\ parsePc = "done"
    /\ cues = <<>>
    /\ currentCue = None
    /\ pendingMovieSpeaker = None
    /\ currentSceneContext = None
    /\ curSrc = <<>>
    /\ cueSrc = <<>>

\* a new CacheService, memory-only or over a directory that may hold the files
\* of an earlier process
CacheWith(files, others) ==
    /\ persistentCacheEnabled \in BOOLEAN
    /\ defaultTtlSeconds \in {None, Some(1)}
    /\ store = [k \in Keys |-> None]
    /\ disk \in {d @@ others :
                    d \in [Keys -> IF persistentCacheEnabled THEN files ELSE {AbsentFile}]}
    /\ dirExists = persistentCacheEnabled
    /\ now = 0
    /\ calls = [c \in Slots |-> Idle]
    /\ issued = 0
    /\ done = <<>>
    /\ latest = [k \in Keys |-> Unknown]
    /\ ioFailed = FALSE
    /\ parseCalls = [p \in ParseCallIds |-> NotCalled]
    /\ ParserIdle
    /\ SearchUnused

CacheOver(files) == CacheWith(files, <<>>)
CacheInit == CacheOver(LeftOverFiles)

(***************************************************************************)
(* searchDialog and searchKeyword over the files of the transcript         *)
(* directory.                                                              *)
(***************************************************************************)
MaxCues == 3
MaxContext == 2

\* cues as parseTranscript emits them: inline speaker lines, a description, a
\* cue begun by a movie speaker label with a parenthetical
Q_Picard == Cue(<<"P","I","C","A","R","D",":"," ","E","n","g","a","g","e",".">>, Some(<<"P","I","C","A","R","D">>))
Q_Riker == Cue(<<"R","I","K","E","R",":"," ","A","y","e",","," ","P","i","c","a","r","d",".">>, Some(<<"R","I","K","E","R">>))
Q_HeSits == Cue(<<"H","e"," ","s","i","t","s",".">>, None)
Q_PicardVO == Cue(<<"P","I","C","A","R","D"," ","(","V",".","O",".",")",":"," ","L","o","g",".">>, Some(<<"P","I","C","A","R","D"," ","(","V",".","O",".",")">>))
Q_Picardo == Cue(<<"P","I","C","A","R","D","O",":"," ","A","y","e",".">>, Some(<<"P","I","C","A","R","D","O">>))
CueCatalogue == {Q_Picard, Q_Riker, Q_HeSits, Q_PicardVO, Q_Picardo}
CueLists(n) == UNION {[1..k -> CueCatalogue] : k \in 1..n}

\* a file of the directory: its path and the cues parsing its content gives
File(path, content) == [path |-> path, content |-> content]
Path_A_X == <<"a","/","x",".","t","x","t">>
Path_B_X == <<"b","/","x",".","t","x","t">>
Path_B_Y == <<"b","/","y",".","t","x","t">>
Path_B_Md == <<"b","/","y",".","m","d">>
Directories ==
    {<<File(Path_A_X, l)>> : l \in CueLists(MaxCues)}
    \cup {<<File(Path_A_X, l), File(q, <<Q_Riker, Q_Picard>>)>> :
             l \in CueLists(MaxCues), q \in {Path_B_X, Path_B_Y, Path_B_Md}}

DialogPatterns == {<<"P","I","C","A","R","D">>, <<"r","i","k","e","r">>}
KeywordPatterns == {<<"p","i","c","a","r","d">>, <<"a","y","e">>, <<"s","i","t","s">>}
\* config.contextLines: omitted, or an integer
ContextSizes == {None} \cup {Some(c) : c \in -1..MaxContext}

\* path.basename(filePath)
RECURSIVE Basename(_)
Basename(path) ==
    IF \E i \in 1..Len(path) : path[i] = "/"
    THEN Basename(Tail(path))
    ELSE path

Slice_EndInclusive(a, start, end) ==
    LET rel(k) == IF k < 0 THEN Max({Len(a) + k, 0}) ELSE Min({k, Len(a)})
    IN SubSeq(a, rel(start) + 1, Min({rel(end) + 1, Len(a)}))

\* Array.prototype.slice(start, end)
Slice(a, start, end) ==
    LET rel(k) == IF k < 0 THEN Max({Len(a) + k, 0}) ELSE Min({k, Len(a)})
    IN SubSeq(a, rel(start) + 1, rel(end))

\* the cue objects parseTranscript builds for a file; as history every object
\* carries the file it was built from and its index in state.cues
ParsedCues(file) ==
    [i \in 1..Len(file.content) |->
        [raw |-> file.content[i].raw, character |-> file.content[i].character,
         src |-> file.path, pos |-> i - 1]]

\* the regular expression searchDialog compiles. In the template literal the
\* escapes \s \( \) \[ \] are those of the string, so the text given to RegExp
\* is ^(PATTERN)(?:s*([^)]*?))?(?:s*[[^]*?])?$ with flag i.
\* s*([^)]*?) : letters s, then a group of characters other than ')'
ParenAnnotation(r) ==
    \E i \in 0..Len(r) :
        /\ \A k \in 1..i : r[k] \in {"s", "S"}
        /\ \A k \in i + 1..Len(r) : r[k] # ")"

\* s*[[^]*?] : letters s, then characters '[' or '^', then ']'
BracketAnnotation(r) ==
    /\ r # <<>>
    /\ r[Len(r)] = "]"
    /\ \E i \in 0..Len(r) - 1 :
          /\ \A k \in 1..i : r[k] \in {"s", "S"}
          /\ \A k \in i + 1..Len(r) - 1 : r[k] \in {"[", "^"}

\* regexPattern.test(character), for a pattern without metacharacters
RegexPatternTest(pattern, character) ==
    /\ StartsWith(ToUpperCase(character), ToUpperCase(pattern))
    /\ \E m \in Len(pattern)..Len(character) :
          LET paren == SubSeq(character, Len(pattern) + 1, m)
              bracket == SubSeq(character, m + 1, Len(character))
          IN /\ paren = <<>> \/ ParenAnnotation(paren)
             /\ bracket = <<>> \/ BracketAnnotation(bracket)

\* searchDialog: filterFn
DialogFilter(pattern, cue) ==
    IF cue.character = None THEN FALSE
    ELSE RegexPatternTest(pattern, cue.character[1])

ExtractTextFromCue_KeepsPrefix(cue) == cue.raw

\* _extractTextFromCue
ExtractTextFromCue(cue) ==
    IF cue.character # None
    THEN LET expectedPrefix == cue.character[1] \o <<":">>
         IN IF StartsWith(ToUpperCase(cue.raw), ToUpperCase(expectedPrefix))
            THEN Trim(Substring(cue.raw, Len(expectedPrefix)))
            ELSE cue.raw
    ELSE cue.raw

\* searchKeyword: filterFn, new RegExp(pattern, 'i').test(text) for a pattern
\* without metacharacters
KeywordFilter(pattern, cue) ==
    Contains(ToUpperCase(ExtractTextFromCue(cue)), ToUpperCase(pattern))

FilterFn(cue) ==
    IF config.kind = "dialog" THEN DialogFilter(config.pattern, cue)
    ELSE KeywordFilter(config.pattern, cue)

\* contextLines: number = 0, then Math.max(0, contextLines)
NumContextLines(contextLines) ==
    Max({0, IF contextLines = None THEN 0 ELSE contextLines[1]})

CuesWithContext_OtherFile(fileCues, numContextLines) ==
    LET hits == SelectSeq([i \in 1..Len(fileCues) |-> i], LAMBDA i : FilterFn(fileCues[i]))
    IN [k \in 1..Len(hits) |->
           [cue |-> fileCues[hits[k]],
            before |-> IF cachedCues[Basename(Path_A_X)] # None
                       THEN cachedCues[Basename(Path_A_X)][1] ELSE <<>>,
            after |-> <<>>]]

\* _searchCuesByFilter: the forEach over one file's cues
CuesWithContext(fileCues, numContextLines) ==
    LET hits == SelectSeq([i \in 1..Len(fileCues) |-> i], LAMBDA i : FilterFn(fileCues[i]))
    IN [k \in 1..Len(hits) |->
           LET index == hits[k] - 1
               beforeStart == Max({0, index - numContextLines})
               afterEnd == Min({Len(fileCues), index + 1 + numContextLines})
           IN [cue |-> fileCues[hits[k]],
               before |-> Slice(fileCues, beforeStart, index),
               after |-> Slice(fileCues, index + 1, afterEnd)]]

SearchFrame == UNCHANGED <<parserVars, cacheVars>>

\* searchDialog(config) up to the first await of _searchCuesByFilter
SearchDialog ==
    /\ searchPc = "idle"
    /\ \E pattern \in DialogPatterns, contextLines \in ContextSizes :
          config' = [kind |-> "dialog", pattern |-> pattern, contextLines |-> contextLines]
    /\ searchPc' = "listing"
    /\ UNCHANGED <<directory, transcriptFiles, fileNo, cachedCues,
                   allMatchingCuesWithContext, searchResult>>
    /\ SearchFrame

\* searchKeyword(config) up to the first await of _searchCuesByFilter
SearchKeyword ==
    /\ searchPc = "idle"
    /\ \E pattern \in KeywordPatterns, contextLines \in ContextSizes :
          config' = [kind |-> "keyword", pattern |-> pattern, contextLines |-> contextLines]
    /\ searchPc' = "listing"
    /\ UNCHANGED <<directory, transcriptFiles, fileNo, cachedCues,
                   allMatchingCuesWithContext, searchResult>>
    /\ SearchFrame

\* getTranscriptFiles: the listed files whose name ends with '.txt'
GetTranscriptFiles ==
    /\ searchPc = "listing"
    /\ transcriptFiles' = SelectSeq(directory, LAMBDA f : EndsWith(f.path, <<".","t","x","t">>))
    /\ fileNo' = 1
    /\ searchPc' = "files"
    /\ UNCHANGED <<directory, config, cachedCues, allMatchingCuesWithContext,
                   searchResult>>
    /\ SearchFrame

\* one turn of the for loop: await this.parseTranscript(file), which returns
\* what the cache holds for path.basename(file) or else parses and caches, then
\* the forEach
SearchFile ==
    /\ searchPc = "files"
    /\ fileNo <= Len(transcriptFiles)
    /\ LET file == transcriptFiles[fileNo]
           cacheKey == Basename(file.path)
           fileCues == IF cachedCues[cacheKey] # None THEN cachedCues[cacheKey][1]
                       ELSE ParsedCues(file)
       IN /\ cachedCues' = [cachedCues EXCEPT ![cacheKey] = Some(fileCues)]
          /\ allMatchingCuesWithContext' =
                 allMatchingCuesWithContext
                 \o CuesWithContext(fileCues, NumContextLines(config.contextLines))
    /\ fileNo' = fileNo + 1
    /\ UNCHANGED <<directory, config, searchPc, transcriptFiles, searchResult>>
    /\ SearchFrame

SearchFileUnreadable_Skipped ==
    /\ searchPc = "files"
    /\ fileNo <= Len(transcriptFiles)
    /\ cachedCues[Basename(transcriptFiles[fileNo].path)] = None
    /\ fileNo' = fileNo + 1
    /\ ioFailed' = TRUE
    /\ UNCHANGED <<directory, config, searchPc, transcriptFiles, cachedCues,
                   allMatchingCuesWithContext, searchResult>>
    /\ UNCHANGED <<persistentCacheEnabled, defaultTtlSeconds, store, disk,
                   dirExists, now, calls, issued, done, latest, parseCalls, parserVars>>

\* one turn of the for loop where the cache holds nothing for the file and
\* readFile rejects: parseTranscript rejects, and with it _searchCuesByFilter
\* and the search, none of which catches
SearchFileUnreadable ==
    /\ searchPc = "files"
    /\ fileNo <= Len(transcriptFiles)
    /\ cachedCues[Basename(transcriptFiles[fileNo].path)] = None
    /\ searchPc' = "rejected"
    /\ ioFailed' = TRUE
    /\ UNCHANGED <<directory, config, transcriptFiles, fileNo, cachedCues,
                   allMatchingCuesWithContext, searchResult>>
    /\ UNCHANGED <<persistentCacheEnabled, defaultTtlSeconds, store, disk,
                   dirExists, now, calls, issued, done, latest, parseCalls, parserVars>>

\* the loop is over: _searchCuesByFilter returns and the result is built
SearchReturns ==
    /\ searchPc = "files"
    /\ fileNo > Len(transcriptFiles)
    /\ searchResult' = Some([cues |-> allMatchingCuesWithContext,
                             total |-> Len(allMatchingCuesWithContext),
                             pattern |-> config.pattern,
                             contextLinesUsed |-> config.contextLines])
    /\ searchPc' = "done"
    /\ UNCHANGED <<directory, config, transcriptFiles, fileNo, cachedCues,
                   allMatchingCuesWithContext>>
    /\ SearchFrame

\* a parser whose cache is empty, over a directory of one or two files
SearchInit ==
    /\ directory \in Directories
    /\ config = <<>>
    /\ searchPc = "idle"
    /\ transcriptFiles = <<>>
    /\ fileNo = 0
    /\ cachedCues = [b \in {Basename(directory[i].path) : i \in 1..Len(directory)} |-> None]
    /\ allMatchingCuesWithContext = <<>>
    /\ searchResult = None
    /\ ParserIdle
    /\ CacheUnused

SearchNext ==
    \/ SearchDialog
    \/ SearchKeyword
    \/ GetTranscriptFiles
    \/ SearchFile
    \/ SearchFileUnreadable
    \/ SearchReturns

\* the caller awaits every call before making the next
SeqGet == Quiet /\ \E key \in Keys : GetCall(1, key)
SeqSet == Quiet /\ \E key \in Keys, value \in Values, ttl \in TtlArgs : SetCall(1, key, value, ttl)
SeqHas == Quiet /\ \E key \in Keys : HasCall(1, key)
SeqDelete == Quiet /\ \E key \in Keys : DeleteCall(1, key)
SeqClear == Quiet /\ ClearCall(1)

\* what a suspended call does when it is resumed
Resume(c) ==
    \/ GetStaleExists(c)
    \/ GetStaleUnlink(c)
    \/ GetExists(c)
    \/ GetRead(c)
    \/ GetResume(c)
    \/ GetUnlinkStale(c)
    \/ GetUnlinkCorrupt(c)
    \/ SetOpen(c)
    \/ SetWrite(c)
    \/ HasExists(c)
    \/ HasRead(c)
    \/ HasResume(c)
    \/ HasUnlink(c)
    \/ DeleteExists(c)
    \/ DeleteUnlink(c)

SeqNext ==
    \/ SeqGet
    \/ SeqSet
    \/ SeqHas
    \/ SeqDelete
    \/ SeqClear
    \/ \E c \in Slots : Resume(c)
    \/ \E c \in Slots : ClearRemove(c)
    \/ \E c \in Slots : ClearCreate(c)
    \/ \E c \in Slots : WriteFails(c)
    \/ \E c \in Slots : DeleteFileFails(c)
    \/ Tick

\* get, set, has and delete calls that overlap: a call may be made while
\* another is suspended at an await
ConcNext ==
    \/ \E c \in Slots, key \in Keys : GetCall(c, key)
    \/ \E c \in Slots, key \in Keys, value \in Values, ttl \in TtlArgs : SetCall(c, key, value, ttl)
    \/ \E c \in Slots, key \in Keys : HasCall(c, key)
    \/ \E c \in Slots, key \in Keys : DeleteCall(c, key)
    \/ \E c \in Slots : Resume(c)
    \/ Tick

\* parseTranscript calls on one file that overlap
TranscriptNext ==
    \/ \E p \in ParseCallIds : ParseTranscriptCall(p)
    \/ \E p \in ParseCallIds : ParseGetReturns(p)
    \/ \E p \in ParseCallIds : ParseReadReturns(p)
    \/ \E p \in ParseCallIds : ParseSetReturns(p)
    \/ \E c \in Slots : Settled /\ GetStaleExists(c)
    \/ \E c \in Slots : Settled /\ GetStaleUnlink(c)
    \/ \E c \in Slots : Settled /\ GetExists(c)
    \/ \E c \in Slots : Settled /\ GetRead(c)
    \/ \E c \in Slots : Settled /\ GetResume(c)
    \/ \E c \in Slots : Settled /\ GetUnlinkStale(c)
    \/ \E c \in Slots : Settled /\ GetUnlinkCorrupt(c)
    \/ \E c \in Slots : Settled /\ SetOpen(c)
    \/ \E c \in Slots : Settled /\ SetWrite(c)
    \/ Tick

ParseAgain_KeepsState ==
    /\ parsePc = "returned"
    /\ Len(parseCalls) < MaxParseCalls
    /\ lineNo' = 1
    /\ parsePc' = "parsing"
    /\ cues' = <<>>
    /\ currentCue' = None
    /\ curSrc' = <<>>
    /\ cueSrc' = <<>>
    /\ UNCHANGED <<lines, pendingMovieSpeaker, currentSceneContext>>
    /\ UNCHANGED <<cacheVars, searchVars>>

\* parseTranscript is called again on the same content and finds nothing
\* cached: content.split and a fresh ParsingState
ParseAgain ==
    /\ parsePc = "returned"
    /\ Len(parseCalls) < MaxParseCalls
    /\ lineNo' = 1
    /\ parsePc' = "parsing"
    /\ cues' = <<>>
    /\ currentCue' = None
    /\ pendingMovieSpeaker' = None
    /\ currentSceneContext' = None
    /\ curSrc' = <<>>
    /\ cueSrc' = <<>>
    /\ UNCHANGED lines
    /\ UNCHANGED <<cacheVars, searchVars>>

\* return state.cues: the call's result is kept
ParseReturns ==
    /\ parsePc = "done"
    /\ Len(parseCalls) < MaxParseCalls
    /\ parseCalls' = Append(parseCalls, [pc |-> "done", result |-> cues])
    /\ parsePc' = "returned"
    /\ UNCHANGED <<persistentCacheEnabled, defaultTtlSeconds, store, disk,
                   dirExists, now, calls, issued, done, latest, ioFailed>>
    /\ UNCHANGED <<lines, lineNo, cues, currentCue, pendingMovieSpeaker,
                   currentSceneContext, curSrc, cueSrc, searchVars>>

\* the same content parsed again and again, each time from a cold cache
TwiceNext ==
    \/ ParseNext
    \/ ParseReturns
    \/ ParseAgain

\* parseTranscript calls whose readFile and cache calls may reject
FaultyNext ==
    \/ TranscriptNext
    \/ \E p \in ParseCallIds : ParseGetRejects(p)
    \/ \E p \in ParseCallIds : ParseReadFails(p)
    \/ \E p \in ParseCallIds : ParseSetRejects(p)

vars == <<parserVars, cacheVars, searchVars>>
ParseSpec == ParseInit /\ [][ParseNext]_vars
SeqSpec == CacheInit /\ [][SeqNext]_vars
ConcSpec == CacheInit /\ [][ConcNext]_vars
TranscriptSpec == CacheInit /\ [][TranscriptNext]_vars
FaultySpec == CacheInit /\ [][FaultyNext]_vars
TwiceSpec == ParseInit /\ [][TwiceNext]_vars
SearchSpec == SearchInit /\ [][SearchNext]_vars

\* overlapping calls over a directory in which every file is complete: no
\* earlier process was stopped in the middle of a write
WholeFilesInit == CacheInit /\ \A k \in Keys : disk[k] # PartialFile
WholeFilesSpec == WholeFilesInit /\ [][ConcNext]_vars

\* awaited calls on a cache whose basePath also holds the files of the other
\* namespaces
OtherEntry == JsonFile(JsonStringify(CacheItem(OldValue, None)))
NamespacesInit == CacheWith(LeftOverFiles, [f \in OtherFiles |-> OtherEntry])
NamespacesSpec == NamespacesInit /\ [][SeqNext]_vars

\* parseTranscript calls over a cache directory that may hold foreign files
ForeignInit == CacheOver(LeftOverFiles \cup ForeignFiles)
ForeignSpec == ForeignInit /\ [][TranscriptNext]_vars

(***************************************************************************)
(* Properties of the cache service.                                        *)
(***************************************************************************)
\* C7: on a memory-only or a persisted cache, whether or not the write of the
\* file succeeds, a get(k) made right after set(k, v, ttl), with no time
\* passed since the set was made, returns v.
C7_SetThenGet ==
    [][(/\ done # <<>>
        /\ done[1].op = "set"
        /\ done[1].from = now
        /\ done' # done
        /\ done'[1].op = "get"
        /\ done'[1].key = done[1].key)
       => done'[1].result = done[1].item[1].value]_vars

\* set then get with no time passed, on a persisted cache whose write failed
C7_Witness ==
    /\ Quiet /\ issued = 2 /\ now = 0
    /\ persistentCacheEnabled /\ ioFailed
    /\ done # <<>> /\ done[1].op = "get" /\ done[1].result \in Values

\* C8: a get(k) made when the clock has passed the expiry of k's entry returns
\* absent and leaves no in-memory entry and, unless unlink failed, no file for
\* k; and no get returns a value whose expiry is in the past.
C8_ExpiredEntryIsGone ==
    (done # <<>> /\ done[1].op = "get") =>
        /\ done[1].item # None =>
              \/ done[1].item[1].expiry = None
              \/ done[1].item[1].expiry[1] >= done[1].at
        /\ (Quiet /\ done[1].expired # None) =>
              /\ done[1].result = "undefined"
              /\ store[done[1].key] = None
              /\ ~done[1].failed => disk[done[1].key] = AbsentFile

\* a get has found the entry stored by a set of this process past its expiry,
\* on a persisted cache where every file operation succeeded
C8_Witness ==
    /\ Quiet /\ persistentCacheEnabled /\ ~ioFailed
    /\ done # <<>> /\ done[1].op = "get"
    /\ done[1].expired # None /\ done[1].expired[1].value \in Values
    /\ ~done[1].failed
    /\ disk[done[1].key] = AbsentFile

\* the file of key k is a complete JSON text whose item has the expiry of the
\* in-memory entry, and its value wherever JSON can represent that value
FileMatchesMemory(k) ==
    /\ disk[k].kind = "json"
    /\ disk[k].text[1].expiry = store[k][1].expiry
    /\ store[k][1].value # "NaN" => disk[k].text[1].value = store[k][1].value

\* C9 as stated: between non-overlapping calls on a persisted cache with no
\* I/O failure, an in-memory entry for k implies that k's file holds the same
\* value and the same expiry.
C9_AsStated ==
    (Quiet /\ persistentCacheEnabled /\ ~ioFailed) =>
        \A k \in Keys :
            store[k] # None =>
                /\ disk[k].kind = "json"
                /\ disk[k].text[1].value = store[k][1].value
                /\ disk[k].text[1].expiry = store[k][1].expiry

\* C9 (amended): between non-overlapping calls on a persisted cache with no
\* I/O failure, an in-memory entry for k implies that k's file exists and holds
\* the same expiry and the JSON form of the value: the same value whenever
\* JSON can represent it.
C9_TierConsistency ==
    (Quiet /\ persistentCacheEnabled /\ ~ioFailed) =>
        \A k \in Keys : store[k] # None => FileMatchesMemory(k)

\* memory holds an entry with an expiry that a get or has has just looked at
C9_Witness ==
    /\ Quiet /\ persistentCacheEnabled /\ ~ioFailed
    /\ done # <<>> /\ done[1].op \in {"get", "has"}
    /\ \E k \in Keys :
          /\ store[k] # None
          /\ store[k][1].expiry # None
          /\ store[k][1].value \in Values

\* C10: once all overlapping get, set, has and delete calls on a key of a
\* persisted cache have completed, an in-memory entry for the key implies that
\* the key's file exists and holds the same value and expiry.
C10_TiersAgreeAfterOverlap ==
    (Quiet /\ persistentCacheEnabled) =>
        \A k \in Keys :
            store[k] # None =>
                /\ disk[k].kind = "json"
                /\ disk[k].text[1].expiry = store[k][1].expiry
                /\ disk[k].text[1].value =
                       (IF store[k][1].value = "NaN" THEN "null" ELSE store[k][1].value)

\* C11: when two parseTranscript calls for the same file overlap, both return
\* the file's cue sequence, and once both have completed the in-memory entry
\* of the file's key and, on a persisted cache, the key's file hold that
\* sequence.
C11_OverlappingParses ==
    (\A p \in ParseCallIds : parseCalls[p].pc = "done") =>
        /\ \A p \in ParseCallIds : parseCalls[p].result = FileCues
        /\ store[CacheKey] # None
        /\ store[CacheKey][1].value = FileCues
        /\ persistentCacheEnabled =>
              /\ disk[CacheKey].kind = "json"
              /\ disk[CacheKey].text[1].value = FileCues

\* both calls missed the cache, parsed the file and wrote the key's file, the
\* second call made while the first awaited its cache lookup
C11_Witness ==
    /\ \A p \in ParseCallIds : parseCalls[p].pc = "done"
    /\ parseCalls[2].overlaps
    /\ persistentCacheEnabled
    /\ issued = 4
    /\ disk[CacheKey].kind = "json"

\* C12: a get or has that reads a key's file while calls on the key overlap
\* reads the complete previous or the complete new content, never an empty or
\* cut-short file (which a get would delete as corrupt).
C12_ReadsSeeWholeFiles ==
    \A c \in Slots :
        calls[c].op \in {"get", "has"} => calls[c].file.kind # "partial"

\* C13: in every match collected by searchDialog or searchKeyword, every cue of
\* the before and after arrays was built from the same file as the matched
\* cue.
C13_ContextFromSameFile ==
    \A k \in 1..Len(allMatchingCuesWithContext) :
        LET m == allMatchingCuesWithContext[k]
        IN /\ \A j \in 1..Len(m.before) : m.before[j].src = m.cue.src
           /\ \A j \in 1..Len(m.after) : m.after[j].src = m.cue.src

\* a search over two files has returned a match on the last cue of the first
\* file and a match on the first cue of the second, both with context
C13_Witness ==
    /\ searchResult # None
    /\ Len(transcriptFiles) = 2
    /\ \E k \in 1..Len(searchResult[1].cues) :
          LET m == searchResult[1].cues[k]
          IN /\ m.cue.src = Path_A_X
             /\ m.cue.pos = Len(transcriptFiles[1].content) - 1
             /\ m.before # <<>>
    /\ \E k \in 1..Len(searchResult[1].cues) :
          LET m == searchResult[1].cues[k]
          IN /\ m.cue.src = Path_B_Y
             /\ m.cue.pos = 0
             /\ m.after # <<>>

\* the cue list of the file a cue object was built from
CueListOf(cue) ==
    ParsedCues(CHOOSE f \in {directory[d] : d \in 1..Len(directory)} : f.path = cue.src)

\* C14: for a match at (0-based) position i of a cue list of length n and a
\* requested context size c, with N = 0 when c is omitted or negative and
\* N = c otherwise, before is the cues at positions max(0, i-N) .. i-1 and
\* after the cues at positions i+1 .. min(n-1, i+N), both in file order;
\* neither holds the matched cue and each has at most N elements.
C14_ContextWindow ==
    \A k \in 1..Len(allMatchingCuesWithContext) :
        LET m == allMatchingCuesWithContext[k]
            all == CueListOf(m.cue)
            n == Len(all)
            i == m.cue.pos
            c == config.contextLines
            N == IF c = None THEN 0 ELSE IF c[1] < 0 THEN 0 ELSE c[1]
            first == IF i - N < 0 THEN 0 ELSE i - N
            last == IF i + N > n - 1 THEN n - 1 ELSE i + N
        IN /\ all[i + 1] = m.cue
           /\ m.before = [j \in 1..i - first |-> all[first + j]]
           /\ m.after = [j \in 1..last - i |-> all[i + 1 + j]]
           /\ \A j \in 1..Len(m.before) : m.before[j].pos # i
           /\ \A j \in 1..Len(m.after) : m.after[j].pos # i
           /\ Len(m.before) <= N
           /\ Len(m.after) <= N

\* a match in the middle of a list of three cues with context size 2: both
\* windows are cut by the ends of the list
C14_Witness ==
    /\ searchResult # None
    /\ config.contextLines = Some(2)
    /\ \E k \in 1..Len(searchResult[1].cues) :
          LET m == searchResult[1].cues[k]
          IN /\ m.cue.pos = 1
             /\ Len(CueListOf(m.cue)) = 3
             /\ Len(m.before) = 1
             /\ Len(m.after) = 1

\* C15: in every search result, total is the number of matches returned and
\* contextLinesUsed is the context size the windows were built with: the
\* requested size, or 0 when the request omits it or is negative.
C15_TotalAndContextUsed ==
    searchResult # None =>
        /\ searchResult[1].total = Len(searchResult[1].cues)
        /\ searchResult[1].contextLinesUsed =
               Some(IF config.contextLines = None THEN 0
                    ELSE IF config.contextLines[1] < 0 THEN 0
                    ELSE config.contextLines[1])

\* a speaker name without its trailing annotation: cut at the last opening
\* character when the name ends with the closing one
CutAnnotation(name, open, close) ==
    IF name # <<>> /\ name[Len(name)] = close /\ \E i \in 1..Len(name) : name[i] = open
    THEN Trim(SubSeq(name, 1, Max({i \in 1..Len(name) : name[i] = open}) - 1))
    ELSE name
BaseSpeaker(name) == CutAnnotation(CutAnnotation(name, "[", "]"), "(", ")")

\* the (0-based) positions of the matches of a search over one file
MatchedPositions == {searchResult[1].cues[k].cue.pos : k \in 1..Len(searchResult[1].cues)}

\* C16: searchDialog returns a cue if and only if the cue has a speaker and
\* the speaker, with any trailing parenthetical and bracketed annotation
\* stripped, equals the pattern case-insensitively.
C16_SpeakerMatch ==
    (searchResult # None /\ config.kind = "dialog" /\ Len(transcriptFiles) = 1) =>
        LET all == ParsedCues(transcriptFiles[1])
        IN MatchedPositions =
               {i - 1 : i \in {j \in 1..Len(all) :
                    /\ all[j].character # None
                    /\ ToUpperCase(BaseSpeaker(all[j].character[1]))
                           = ToUpperCase(config.pattern)}}

\* the dialogue body of a cue: its text after the speaker, the colon and the
\* space that follow it; the whole text of a speaker-less cue
DialogueBody(cue) ==
    IF cue.character = None THEN cue.raw
    ELSE SubSeq(cue.raw, Len(cue.character[1]) + 3, Len(cue.raw))

BodyHasKeyword(cue) ==
    \E i \in 1..Len(DialogueBody(cue)) :
        /\ i + Len(config.pattern) - 1 <= Len(DialogueBody(cue))
        /\ \A j \in 1..Len(config.pattern) :
              ToUpperChar(DialogueBody(cue)[i + j - 1]) = ToUpperChar(config.pattern[j])

\* C17: searchKeyword returns a cue if and only if the pattern occurs, in any
\* letter case and at any place, in the cue's dialogue body; an occurrence in
\* the speaker prefix alone does not count.
C17_KeywordMatch ==
    config # <<>> /\ config.kind = "keyword" =>
        /\ \A k \in 1..Len(allMatchingCuesWithContext) :
              BodyHasKeyword(allMatchingCuesWithContext[k].cue)
        /\ (searchResult # None /\ Len(transcriptFiles) = 1) =>
              LET all == ParsedCues(transcriptFiles[1])
              IN MatchedPositions = {i - 1 : i \in {j \in 1..Len(all) : BodyHasKeyword(all[j])}}

\* the keyword picard over the cues 'PICARD: Engage.' and 'RIKER: Aye,
\* Picard.': only the second cue is returned
C17_Witness ==
    /\ searchResult # None
    /\ config.kind = "keyword"
    /\ config.pattern = <<"p","i","c","a","r","d">>
    /\ Len(transcriptFiles) = 1
    /\ transcriptFiles[1].content = <<Q_Picard, Q_Riker>>
    /\ MatchedPositions = {1}

\* the clock has not passed the expiry of a cache item
NotExpired(item) == item.expiry = None \/ item.expiry[1] >= now

\* a step in which get(k) is called in slot c while memory holds an entry for
\* k that has not expired
GetOnFreshMemory(k, c) ==
    /\ calls[c] = Idle
    /\ issued' = issued + 1
    /\ store[k] # None
    /\ NotExpired(store[k][1])
    /\ \/ calls'[c].op = "get" /\ calls'[c].key = k
       \/ calls' = calls /\ done' # <<>> /\ done'[1].op = "get" /\ done'[1].key = k

\* a step in which a get(k) that missed memory completes while k's file is a
\* complete JSON text whose entry has not expired
GetEndsOnFreshFile(k, c) ==
    /\ calls[c].op = "get"
    /\ calls[c].key = k
    /\ calls'[c] = Idle
    /\ calls[c].expired = None
    /\ store[k] = None
    /\ disk[k].kind = "json"
    /\ NotExpired(disk[k].text[1])

\* C18: a get(k) made while memory holds an entry for k that has not expired
\* returns that entry's value at once, with no file operation; a get(k) that
\* missed memory and completes while k's file is a complete JSON text whose
\* entry has not expired returns the file's value and leaves in memory an
\* entry with the file's value and the file's expiry.
C18_MemoryFirstThenFile ==
    [][\A k \in Keys, c \in Slots :
          /\ GetOnFreshMemory(k, c) =>
                (calls' = calls /\ done'[1].result = store[k][1].value
                 /\ store' = store /\ disk' = disk)
          /\ GetEndsOnFreshFile(k, c) =>
                (done'[1].result = disk[k].text[1].value
                 /\ store'[k] = Some(CacheItem(disk[k].text[1].value,
                                               disk[k].text[1].expiry)))]_vars

\* a get has returned the value of an expiring file left by an earlier
\* process, some time after start, and memory holds it with the file's expiry
C18_Witness ==
    /\ Quiet /\ persistentCacheEnabled
    /\ now > 0
    /\ done # <<>> /\ done[1].op = "get" /\ done[1].result = OldValue
    /\ \E k \in Keys :
          /\ store[k] = Some(CacheItem(OldValue, Some(MsPerSecond)))
          /\ disk[k] = JsonFile(CacheItem(OldValue, Some(MsPerSecond)))

\* a step in which a get(k) completes
GetCompletes(k) ==
    \/ \E c \in Slots : calls[c].op = "get" /\ calls[c].key = k /\ calls'[c] = Idle
    \/ /\ issued' = issued + 1
       /\ calls' = calls
       /\ done' # <<>> /\ done'[1].op = "get" /\ done'[1].key = k

\* C19: a set(k, v) whose write of the file fails completes normally and
\* leaves v in memory; the get(k) calls that follow it return v, as long as
\* the entry has not expired and no other call on k comes in between.
C19_FailedWriteKeepsMemory ==
    [][/\ (done # <<>> /\ done[1].op = "set" /\ done[1].failed /\ Quiet) =>
              /\ done[1].result = "void"
              /\ store[done[1].key] = done[1].item
       /\ \A k \in Keys :
              (/\ done # <<>>
               /\ done[1].key = k
               /\ \/ done[1].op = "set" /\ done[1].failed
                  \/ done[1].op = "get" /\ done[1].item # None /\ ioFailed
               /\ NotExpired(done[1].item[1])
               /\ GetCompletes(k))
              => done'[1].result = done[1].item[1].value]_vars

\* after a set whose write failed and one more call, a get has returned a
\* value given to set although no complete file holds it
C19_Witness ==
    /\ Quiet /\ persistentCacheEnabled /\ ioFailed
    /\ issued = 3
    /\ done # <<>> /\ done[1].op = "get" /\ done[1].result \in Values
    /\ \A k \in Keys : disk[k].kind # "json"

\* C20: once a get(k) or has(k) has completed with no file operation failing,
\* the tier it looked at holds no entry for k that was already past its
\* expiry when the call was made: none in memory, and none in k's file when
\* memory has no entry.
C20_StaleEntryIsDeleted ==
    (Quiet /\ ~ioFailed /\ done # <<>> /\ done[1].op \in {"get", "has"}) =>
        LET k == done[1].key
        IN /\ store[k] # None =>
                 \/ store[k][1].expiry = None
                 \/ store[k][1].expiry[1] >= done[1].from
           /\ (persistentCacheEnabled /\ store[k] = None /\ disk[k].kind = "json") =>
                 \/ disk[k].text[1].expiry = None
                 \/ disk[k].text[1].expiry[1] >= done[1].from

(***************************************************************************)
(* Properties of error handling, of clearNamespace and of the assembler.   *)
(***************************************************************************)
\* the content read by a get is not a cache item written by set: it cannot be
\* parsed, or it parses to something that is not a {value, expiry?} object
Malformed(file) == file.kind \in {"partial", "falsy", "other"}

\* the get in slot c, which read a malformed file, returns in this step
MalformedGetReturns(c) ==
    /\ calls[c].op = "get"
    /\ calls[c].pc \in {"parsed", "unlinkCorrupt"}
    /\ Malformed(calls[c].file)
    /\ calls'[c] = Idle

\* C21: when a get that found the key's persisted file malformed (unparseable
\* JSON, or JSON that is not a {value, expiry?} object) returns, it returns
\* absent and the offending file is deleted.
C21_MalformedFileIsDeleted ==
    [][\A c \in Slots :
          MalformedGetReturns(c) =>
              /\ done'[1].result = "undefined"
              /\ \A k \in Keys : k = calls[c].key => ~FileExists(k)']_vars

\* C22: a parseTranscript call rejects if and only if its read of the source
\* file failed; a call whose read failed made no set (when every call made so
\* far ended that way, the only cache calls made are their gets), and a call
\* whose cache get or set rejected while its read succeeded returns the cues.
C22_RejectsIffReadFails ==
    /\ \A p \in ParseCallIds :
           parseCalls[p].pc = "done" =>
               /\ (parseCalls[p].result = "rejected") <=> parseCalls[p].readFailed
               /\ parseCalls[p].readFailed => ~parseCalls[p].wrote
               /\ (parseCalls[p].cacheFailed /\ ~parseCalls[p].readFailed) =>
                      parseCalls[p].result = FileCues
    /\ (\A p \in ParseCallIds :
            parseCalls[p].pc = "none" \/ parseCalls[p].readFailed) =>
           /\ issued = Cardinality({p \in ParseCallIds : parseCalls[p].pc = "done"})
           /\ \A k \in Keys : store[k] = None

\* one call was rejected by its failed read, the other returned the parsed
\* cues although a cache call of its own rejected
C22_Witness ==
    /\ \E p \in ParseCallIds :
          /\ parseCalls[p].pc = "done"
          /\ parseCalls[p].readFailed
          /\ parseCalls[p].result = "rejected"
    /\ \E p \in ParseCallIds :
          /\ parseCalls[p].pc = "done"
          /\ parseCalls[p].cacheFailed
          /\ parseCalls[p].result = FileCues

\* C23: once the read of a file has failed during a search, the search is
\* rejected at that file: no result is returned, and the only files parsed are
\* those before it.
C23_UnreadableFileAborts ==
    ioFailed =>
        /\ searchPc = "rejected"
        /\ searchResult = None
        /\ fileNo \in 1..Len(transcriptFiles)
        /\ \A b \in DOMAIN cachedCues :
              cachedCues[b] # None =>
                  \E i \in 1..fileNo - 1 : Basename(transcriptFiles[i].path) = b

\* the second file could not be read after the first had given matches
C23_Witness ==
    /\ searchPc = "rejected"
    /\ ioFailed
    /\ fileNo = 2
    /\ allMatchingCuesWithContext # <<>>
    /\ searchResult = None

\* C24: once clearNamespace() has completed, with no operation overlapping it
\* and no file operation failed, no key of the namespace has an in-memory
\* entry or a file (so get returns absent and has returns false), the
\* namespace's directory exists, and the persisted entries of the other
\* namespaces are as they were.
C24_ClearNamespace ==
    (/\ Quiet
     /\ done # <<>>
     /\ done[1].op = "clearNamespace"
     /\ ~ioFailed) =>
        /\ \A k \in Keys : store[k] = None /\ disk[k] = AbsentFile
        /\ persistentCacheEnabled => dirExists
        /\ \A f \in OtherFiles : disk[f] = OtherEntry

Finalizes ==
    /\ cues' = FinalizeAndAddCue(cues, currentCue, currentSceneContext).cues
    /\ currentCue' = None

\* the step processes a line of category cat
Processes(cat) == Reading(cat) /\ lineNo' = lineNo + 1

\* C26 as stated: a credit line finalizes the cue in progress and sets the
\* pending speaker and the scene context to none; a blank, footer or
\* omitted-scene line finalizes it and leaves both exactly as they were.
C26_AsStated ==
    [][/\ Processes("credit") =>
              /\ Finalizes
              /\ pendingMovieSpeaker' = None
              /\ currentSceneContext' = None
       /\ Processes("skip") =>
              /\ Finalizes
              /\ UNCHANGED <<pendingMovieSpeaker, currentSceneContext>>]_vars

\* C26 (amended): a credit line finalizes the cue in progress and sets the
\* pending speaker and the scene context to none; a blank, footer or
\* omitted-scene line finalizes it and leaves the pending speaker as it was and
\* the scene context as that finalization leaves it: unchanged when no cue is
\* in progress (as is the case whenever a speaker is queued) or when the cue
\* finalized is a description other than the bracketed context, none when it is
\* a dialogue cue or the bracketed context itself.
C26_CreditAndSkippedLines ==
    [][/\ Processes("credit") =>
              /\ Finalizes
              /\ pendingMovieSpeaker' = None
              /\ currentSceneContext' = None
       /\ Processes("skip") =>
              /\ Finalizes
              /\ UNCHANGED pendingMovieSpeaker
              /\ currentSceneContext' \in {currentSceneContext, None}
              /\ (currentCue = None \/ pendingMovieSpeaker # None) =>
                     UNCHANGED currentSceneContext
              /\ (currentCue # None /\ currentCue[1].character # None) =>
                     currentSceneContext' = None
              /\ (/\ currentCue # None
                  /\ currentCue[1].character = None
                  /\ currentSceneContext # None
                  /\ ToUpperCase(Trim(currentCue[1].raw))
                         # <<"[">> \o ToUpperCase(currentSceneContext[1]) \o <<"]">>) =>
                     UNCHANGED currentSceneContext]_vars

\* a blank, footer or omitted-scene line has just been passed with a speaker
\* queued and a scene context active
C26_Witness ==
    /\ lineNo = 4
    /\ CategoryOfLine(1) = "sceneHeader"
    /\ CategoryOfLine(2) = "movieSpeaker"
    /\ CategoryOfLine(3) = "skip"
    /\ pendingMovieSpeaker # None
    /\ currentSceneContext # None

\* a movie speaker label, a scene header and a plain text line
LabelHeaderText ==
    /\ Len(lines) = 3
    /\ CategoryOfLine(1) = "movieSpeaker"
    /\ CategoryOfLine(2) = "sceneHeader"
    /\ CategoryOfLine(3) = "continuation"

\* the scene context as a prefix of a description: "[C] ", or nothing when C
\* is blank
ContextPrefix(c) == IF c = <<>> THEN <<>> ELSE <<"[">> \o c \o <<"]", " ">>

\* C27: a scene header line finalizes the cue in progress with the context
\* active before it, clears the pending speaker and makes the header's inner
\* text, whitespace runs collapsed, the active context; so a plain text line
\* after a speaker label and a scene header is emitted as one speaker-less cue.
C27_SceneHeaderLine ==
    /\ [][Processes("sceneHeader") =>
              /\ Finalizes
              /\ pendingMovieSpeaker' = None
              /\ currentSceneContext' = Some(CollapseWs(InnerText(lines[lineNo])))]_vars
    /\ []((Done /\ LabelHeaderText) =>
              cues = <<Cue(ContextPrefix(CollapseWs(InnerText(lines[2])))
                               \o Trim(lines[3]), None)>>)

\* label, header and text have been parsed: one speaker-less cue that carries
\* the header's context
C27_Witness ==
    /\ Done
    /\ LabelHeaderText
    /\ Len(cues) = 1
    /\ cues[1].character = None
    /\ StartsWith(cues[1].raw, <<"[">>)

\* the last line before line j that is not blank, footer or omitted scene
PrevNonSkip(j) ==
    Max({0} \cup {i \in 1..Min({j - 1, Len(lines)}) : CategoryOfLine(i) # "skip"})

\* the speaker queued when line j is reached: the name of the movie speaker
\* label that precedes it with nothing but skipped lines in between
Queued(j) ==
    LET i == PrevNonSkip(j)
    IN IF i > 0 /\ CategoryOfLine(i) = "movieSpeaker"
       THEN Some(Trim(MOVIE_SPEAKER(lines[i])[1])) ELSE None

\* the speaker a cue-start line names itself
InlineSpeaker(j) == MatchedCharacterName(CUE_START(Trim(lines[j])))

\* the content lines reached with a speaker queued
QueuedContentLines ==
    {j \in 1..Len(lines) :
        CategoryOfLine(j) \in {"cueStart", "continuation"} /\ Queued(j) # None}

\* C28 as stated: the speaker S queued by a label is pending up to the next
\* content line (cue-start or continuation, skipped lines passed over) and not
\* after it; that line begins a cue whose speaker is S, and a cue has a queued
\* speaker only in this way.
C28_AsStated ==
    /\ pendingMovieSpeaker = Queued(lineNo)
    /\ Done =>
           /\ \A j \in QueuedContentLines :
                  \E k \in 1..Len(cues) :
                      cueSrc[k][1] = j /\ cues[k].character = Queued(j)
           /\ \A k \in 1..Len(cues) :
                  cues[k].character # None =>
                      \/ cues[k].character = Queued(cueSrc[k][1])
                      \/ /\ Queued(cueSrc[k][1]) = None
                         /\ CategoryOfLine(cueSrc[k][1]) = "cueStart"
                         /\ cues[k].character = InlineSpeaker(cueSrc[k][1])

\* C28 (amended): the speaker S queued by a label is pending up to the next
\* content line and not after it. When that line is a continuation it begins
\* a cue whose speaker is S; when it is a cue-start line the cue it begins has
\* the speaker the line names itself, or none, and S is dropped. A cue has a
\* queued speaker only in the first way.
C28_PendingSpeaker ==
    /\ pendingMovieSpeaker = Queued(lineNo)
    /\ Done =>
           /\ \A j \in QueuedContentLines :
                  IF CategoryOfLine(j) = "continuation"
                  THEN \E k \in 1..Len(cues) :
                           cueSrc[k][1] = j /\ cues[k].character = Queued(j)
                  ELSE \A k \in 1..Len(cues) :
                           cueSrc[k][1] = j => cues[k].character = InlineSpeaker(j)
           /\ \A k \in 1..Len(cues) :
                  cues[k].character # None =>
                      \/ /\ CategoryOfLine(cueSrc[k][1]) = "continuation"
                         /\ cues[k].character = Queued(cueSrc[k][1])
                      \/ /\ CategoryOfLine(cueSrc[k][1]) = "cueStart"
                         /\ cues[k].character = InlineSpeaker(cueSrc[k][1])

\* a label, a skipped line and a plain text line have been parsed into one cue
\* spoken by the label's speaker
C28_Witness ==
    /\ Done
    /\ Len(lines) = 3
    /\ CategoryOfLine(1) = "movieSpeaker"
    /\ CategoryOfLine(2) = "skip"
    /\ CategoryOfLine(3) = "continuation"
    /\ Len(cues) = 1
    /\ cues[1].character = Queued(3)
    /\ pendingMovieSpeaker = None

\* line i is a cue-start line that names a speaker
StartsDialogue(i) ==
    CategoryOfLine(i) = "cueStart" /\ InlineSpeaker(i) # None

\* the last line of the run of continuation lines that follows line i
RunOfContinuations(i) ==
    Max({e \in i..Len(lines) : \A m \in i + 1..e : CategoryOfLine(m) = "continuation"})

\* the trimmed texts of lines i..e joined by single spaces
Joined(i, e) ==
    LET J[m \in i..e] ==
            IF m = i THEN Trim(lines[i]) ELSE J[m - 1] \o <<" ">> \o Trim(lines[m])
    IN J[e]

\* a continuation line that extends the cue in progress emits nothing and adds
\* a space and its trimmed text to the cue's text
ContinuationExtends ==
    (Processes("continuation") /\ pendingMovieSpeaker = None /\ currentCue # None) =>
        /\ cues' = cues
        /\ currentCue' =
               Some([raw |-> currentCue[1].raw \o <<" ">> \o Trim(lines[lineNo]),
                     character |-> currentCue[1].character])

Rendered(s, text) ==
    s \o <<":", " ">> \o
        (IF StartsWith(ToUpperCase(text), ToUpperCase(s) \o <<":">>)
         THEN Trim(Substring(text, Len(s) + 1)) ELSE text)

FinalizesCue ==
    /\ currentCue # None
    /\ lineNo' = lineNo + 1 \/ parsePc' = "done"
    /\ ~(Reading("continuation") /\ pendingMovieSpeaker = None)

\* the scene context the step leaves, apart from the one a scene header sets
\* after finalizing
ContextConsumed == Reading("sceneHeader") \/ currentSceneContext' = None

\* the cue the step emits
EmittedCue == cues'[Len(cues')]

\* C30: a step that finalizes a dialogue cue emits it and leaves no scene
\* context; a step that finalizes a speaker-less cue whose text is the
\* bracketed form "[C]" of the active context C emits that text unchanged and
\* leaves no scene context; no step but a scene header sets a context; and a
\* description cue finalized while no context is set is emitted with its own
\* text, without a prefix.
C30_ContextConsumption ==
    [][/\ (FinalizesCue /\ currentCue[1].character # None) =>
              /\ Len(cues') = Len(cues) + 1
              /\ EmittedCue.character = currentCue[1].character
              /\ ContextConsumed
       /\ (/\ FinalizesCue
           /\ currentCue[1].character = None
           /\ currentSceneContext # None
           /\ currentSceneContext[1] # <<>>
           /\ Trim(currentCue[1].raw) = <<"[">> \o currentSceneContext[1] \o <<"]">>) =>
              /\ cues' = Append(cues, Cue(Trim(currentCue[1].raw), None))
              /\ ContextConsumed
       /\ (currentSceneContext = None /\ ~Reading("sceneHeader")) =>
              currentSceneContext' = None
       /\ (/\ FinalizesCue
           /\ currentCue[1].character = None
           /\ currentSceneContext = None
           /\ Len(cues') = Len(cues) + 1) =>
              /\ EmittedCue.character = None
              /\ EndsWith(Trim(currentCue[1].raw), EmittedCue.raw)
              /\ ~StartsWith(Trim(currentCue[1].raw), NullPrefix) =>
                     EmittedCue.raw = Trim(currentCue[1].raw)]_vars

\* a scene header, the bracketed context itself and a description have been
\* parsed: the bracketed cue consumed the context and the description has no
\* prefix
C30_Witness ==
    /\ Done
    /\ Len(lines) = 3
    /\ CategoryOfLine(1) = "sceneHeader"
    /\ InnerText(lines[1]) # <<>>
    /\ Trim(lines[2]) = <<"[">> \o CollapseWs(InnerText(lines[1])) \o <<"]">>
    /\ CategoryOfLine(3) = "cueStart"
    /\ InlineSpeaker(3) = None
    /\ cues = <<Cue(Trim(lines[2]), None), Cue(Trim(lines[3]), None)>>
    /\ currentSceneContext = None

(***************************************************************************)
(* Properties of scene-context prefixes, of speaker tags, of content       *)
(* preservation, of classification, of cache keys and of concurrent cache  *)
(* operations.                                                             *)
(***************************************************************************)

\* the step finalizes a speaker-less cue while a scene context is active
FinalizesDescriptionUnder ==
    /\ FinalizesCue
    /\ currentCue[1].character = None
    /\ currentSceneContext # None
    /\ currentSceneContext[1] # <<>>
    /\ Trim(currentCue[1].raw) # <<>>
    /\ ~StartsWith(Trim(currentCue[1].raw), <<"[", "n", "u", "l", "l", "]">>)

\* the scene context stays what it was, apart from a scene header replacing it
\* and a credit line clearing it after the cue is finalized
ContextKept ==
    \/ Reading("sceneHeader")
    \/ Reading("credit")
    \/ currentSceneContext' = currentSceneContext

\* C31: a step that finalizes a speaker-less cue while the scene context C is
\* active, with a text that is neither "[C]" nor starts with "[C] ", emits
\* "[C] " followed by the text and keeps C active; a bracketed stage direction
\* different from C is such a text.
C31_DescriptionPrefix ==
    [][(/\ FinalizesDescriptionUnder
        /\ Trim(currentCue[1].raw) # <<"[">> \o currentSceneContext[1] \o <<"]">>
        /\ ~StartsWith(Trim(currentCue[1].raw), ContextPrefix(currentSceneContext[1]))) =>
           /\ cues' = Append(cues, Cue(ContextPrefix(currentSceneContext[1]) \o Trim(currentCue[1].raw), None))
           /\ ContextKept]_vars

\* the positions of the colons of line i's trimmed text
Colons(i) == {p \in 1..Len(Trim(lines[i])) : Trim(lines[i])[p] = ":"}

\* the dialogue body of the cue made of lines i..e when the speaker's colon is
\* at position p of line i: the joined text after that colon, trimmed
BodyAfter(i, e, p) == Trim(Substring(Joined(i, e), p))

\* C32: the dialogue cue begun by an inline speaker line with speaker S has
\* the text "S: " followed by the text after the speaker's colon (continuation
\* lines included), so that the line's own speaker tag is not part of the body.
C32_SpeakerTagStripped ==
    Done =>
        \A k \in 1..Len(cues) :
            LET i == cueSrc[k][1]
                e == cueSrc[k][Len(cueSrc[k])]
            IN (StartsDialogue(i) /\ cues[k].character = InlineSpeaker(i)) =>
                   \E p \in Colons(i) :
                       cues[k].raw = InlineSpeaker(i)[1] \o <<":", " ">> \o BodyAfter(i, e, p)

\* the lines classified as cue-start or continuation
ContentLines ==
    {j \in 1..Len(lines) : CategoryOfLine(j) \in {"cueStart", "continuation"}}

\* the lines that went into some emitted cue
EmittedLines ==
    UNION {{cueSrc[k][m] : m \in 1..Len(cueSrc[k])} : k \in 1..Len(cueSrc)}

\* the text finalization keeps of a joined text: the whole text, less a leading
\* "[null] " and nothing when only "[null]" is left
LessNullToken(text) ==
    LET stripped == IF StartsWith(text, NullPrefix)
                    THEN Substring(text, Len(NullPrefix)) ELSE text
    IN IF stripped = NullToken THEN <<>> ELSE stripped

\* cue k is made of the consecutive lines i..e and carries their texts joined
\* by single spaces: a dialogue cue as "S: " and the text (a tag "S:" the text
\* starts with is the one rendered), a description as the text, after the
\* scene context prefix if it has one
CarriesItsLines(k) ==
    LET i == cueSrc[k][1]
        e == cueSrc[k][Len(cueSrc[k])]
        text == LessNullToken(Joined(i, e))
    IN /\ cueSrc[k] = [m \in 1..e - i + 1 |-> i + m - 1]
       /\ IF cues[k].character # None
          THEN cues[k].raw = Rendered(cues[k].character[1], text)
          ELSE /\ EndsWith(cues[k].raw, text)
               /\ text # <<>>
               /\ cues[k].raw = text \/ StartsWith(cues[k].raw, <<"[">>)

CategoryOrder ==
    <<"credit", "skip", "sceneHeader", "movieSpeaker", "cueStart", "continuation">>

\* the categories whose own test line i passes; every line passes the last
Matching(i) ==
    LET o == lines[i]
        t == Trim(o)
    IN {n \in 1..6 :
          \/ n = 1 /\ CREDIT_LINE(t)
          \/ n = 2 /\ (t = <<>> \/ FOOTER(o) \/ MOVIE_LINE(o))
          \/ n = 3 /\ SCENE_HEADER(t) # None
          \/ n = 4 /\ MOVIE_SPEAKER(o) # None
          \/ n = 5 /\ CUE_START(t).matched
          \/ n = 6}

\* the first category line i matches
FirstMatch(i) == CategoryOrder[Min(Matching(i))]

\* what the handler of category cat, and no other, does with the line read
HandledAs(cat) ==
    CASE cat = "credit" ->
            /\ currentCue' = None
            /\ pendingMovieSpeaker' = None
            /\ currentSceneContext' = None
      [] cat = "skip" ->
            /\ currentCue' = None
            /\ pendingMovieSpeaker' = pendingMovieSpeaker
            /\ currentSceneContext' \in {currentSceneContext, None}
      [] cat = "sceneHeader" ->
            /\ currentCue' = None
            /\ pendingMovieSpeaker' = None
            /\ currentSceneContext' =
                   Some(CollapseWs(Trim(SCENE_HEADER(Trim(lines[lineNo]))[1])))
      [] cat = "movieSpeaker" ->
            /\ currentCue' = None
            /\ pendingMovieSpeaker' = Some(Trim(MOVIE_SPEAKER(lines[lineNo])[1]))
      [] cat = "cueStart" ->
            /\ currentCue' = Some([raw |-> Trim(lines[lineNo]),
                                   character |-> InlineSpeaker(lineNo)])
            /\ curSrc' = <<lineNo>>
            /\ pendingMovieSpeaker' = None
      [] cat = "continuation" ->
            /\ currentCue' # None
            /\ EndsWith(currentCue'[1].raw, Trim(lines[lineNo]))
            /\ curSrc'[Len(curSrc')] = lineNo
            /\ pendingMovieSpeaker' = None

\* the lines that pass both the credit test and the cue-start test
CreditAndCueStart ==
    {i \in 1..Len(lines) : CREDIT_LINE(Trim(lines[i])) /\ CUE_START(Trim(lines[i])).matched}

\* C34: every line is handled by the handler of the first category it matches
\* in the order credit, skipped, scene header, movie speaker label, cue-start,
\* continuation; a line that matches the credit and a cue-start pattern is
\* handled as credit and is part of no cue, emitted or in progress.
C34_FirstMatchWins ==
    /\ [][lineNo' = lineNo + 1 =>
              /\ Category(lines[lineNo], Trim(lines[lineNo])) = FirstMatch(lineNo)
              /\ HandledAs(FirstMatch(lineNo))]_vars
    /\ [](\A i \in CreditAndCueStart :
              /\ i \notin EmittedLines
              /\ \A m \in 1..Len(curSrc) : curSrc[m] # i)

\* a line that matches the credit and a cue-start pattern has been read between
\* two cues
C34_Witness ==
    /\ Done
    /\ Len(lines) = 3
    /\ 2 \in CreditAndCueStart
    /\ cueSrc = <<<<1>>, <<3>>>>

\* Speaker lines with a trailing annotation, and the lines around them.
L_KiraOnComm == <<"K","I","R","A"," ","(","o","n"," ","c","o","m","m",")",":"," ","R","e","p","o","r","t",".">>
L_PicardOC == <<"P","I","C","A","R","D"," ","[","O","C","]",":"," ","E","n","g","a","g","e",".">>
T_KiraOnComm == <<"K","I","R","A"," ","(","o","n"," ","c","o","m","m",")">>
T_PicardOC == <<"P","I","C","A","R","D"," ","[","O","C","]">>
AnnotatedCatalogue ==
    { L_KiraOnComm, L_PicardOC, L_Aye, L_Blank, L_Riker, L_Header10,
      <<"D","i","r","e","c","t","e","d"," ","b","y"," ","A","l">> }

\* every input of at most n of these lines
RECURSIVE AnnotatedInputs(_)
AnnotatedInputs(n) ==
    IF n = 0 THEN {<<>>}
    ELSE LET shorter == AnnotatedInputs(n - 1)
         IN shorter \cup {Append(s, l) : s \in {x \in shorter : Len(x) = n - 1},
                                         l \in AnnotatedCatalogue}

AnnotatedInit ==
    /\ lines \in AnnotatedInputs(MaxLines)
    /\ lineNo = 1
    /\ parsePc = "parsing"
    /\ cues = <<>>
    /\ currentCue = None
    /\ pendingMovieSpeaker = None
    /\ currentSceneContext = None
    /\ curSrc = <<>>
    /\ cueSrc = <<>>
    /\ CacheUnused
    /\ SearchUnused
AnnotatedSpec == AnnotatedInit /\ [][ParseNext]_vars

\* the name with its annotation on an annotated speaker line
AnnotatedTag(l) == IF l = L_KiraOnComm THEN T_KiraOnComm ELSE T_PicardOC

\* the annotated speaker lines of the input
AnnotatedLines ==
    {i \in 1..Len(lines) : lines[i] \in {L_KiraOnComm, L_PicardOC}}

\* C35: a line "NAME (annotation): ..." or "NAME [annotation]: ..." is a
\* cue-start line whose captured speaker is the name with its annotation, and
\* the cue it starts is emitted with that speaker.
C35_AnnotatedSpeaker ==
    \A i \in AnnotatedLines :
        /\ CategoryOfLine(i) = "cueStart"
        /\ InlineSpeaker(i) = Some(AnnotatedTag(lines[i]))
        /\ Done => \E k \in 1..Len(cues) :
                       /\ cueSrc[k][1] = i
                       /\ cues[k].character = Some(AnnotatedTag(lines[i]))

\* the characters of an upper-case speaker name
NameChars == AsciiUpper \cup Digits \cup {" ", ",", "'", "-", ".", "(", ")"}

\* a trailing annotation: a parenthetical or a bracketed text
IsAnnotation(a) ==
    LET b == Trim(a)
    IN /\ Len(b) >= 2
       /\ \/ b[1] = "(" /\ b[Len(b)] = ")"
          \/ b[1] = "[" /\ b[Len(b)] = "]"

\* s is an upper-case speaker name with or without a trailing annotation
IsSpeakerName(s) ==
    /\ s # <<>>
    /\ s[1] \in AsciiUpper
    /\ \E n \in 1..Len(s) :
          /\ \A j \in 1..n : s[j] \in NameChars
          /\ n = Len(s) \/ IsAnnotation(SubSeq(s, n + 1, Len(s)))

\* C36: a line is a cue-start line that names a speaker only when the text
\* before its colon is an upper-case speaker name, with or without a trailing
\* annotation; no cue begun by such a line has another text as its speaker.
C36_OnlyUpperCaseNames ==
    /\ \A i \in 1..Len(lines) :
          StartsDialogue(i) => IsSpeakerName(InlineSpeaker(i)[1])
    /\ Done =>
          \A k \in 1..Len(cues) :
              (cues[k].character # None /\ CategoryOfLine(cueSrc[k][1]) = "cueStart") =>
                  IsSpeakerName(cues[k].character[1])

\* C37: the turn of the search loop for a file works on the cues assembled
\* from that file's own content: the matches it adds are those of
\* parseTranscript's result for the content of the file, whatever other files
\* were parsed before.
C37_OwnContent ==
    [][(searchPc = "files" /\ fileNo' = fileNo + 1) =>
           allMatchingCuesWithContext' =
               allMatchingCuesWithContext
               \o CuesWithContext(ParsedCues(transcriptFiles[fileNo]),
                                  NumContextLines(config.contextLines))]_vars

\* a get(key) or has(key) made now, with no other call running, finds nothing:
\* memory holds no entry, and the file is missing, cut short or past its expiry
FoundAbsent(key) ==
    /\ store[key] = None
    /\ \/ ~FileExists(key)
       \/ disk[key].kind = "partial"
       \/ /\ disk[key].kind = "json"
          /\ IsStale(JsonParse(disk[key].text[1]), now)

\* C38: when a delete(k) or clearNamespace() has completed and no set(k) has
\* been made since it was called, every call that was running has settled and
\* the removal did not fail, a get(k) finds nothing and has(k) is false, also
\* when a set(k) made before the removal finished its write after it.
C38_RemovalIsFinal ==
    \A k \in Keys : (latest[k] = Removed /\ Quiet) => FoundAbsent(k)

\* the entry of the set(k, ...) made last, when no delete or clearNamespace has
\* been called since and the clock has not passed its expiry
InForce(k) ==
    IF latest[k].kind = "set" /\ NotExpired(latest[k].item[1])
    THEN latest[k].item ELSE None

\* a step in which get(k) is called and returns without an await
GetReturnsAtOnce(k) ==
    /\ issued' = issued + 1
    /\ calls' = calls
    /\ done' # <<>> /\ done'[1].op = "get" /\ done'[1].key = k

\* C39: as long as the entry of the last set(k, v) is in force, memory holds
\* it and a get(k) called then returns v, also when a get(k) called before the
\* set was reading an older file while the set ran.
C39_SetIsAuthoritative ==
    /\ [](\A k \in Keys : InForce(k) # None => store[k] = InForce(k))
    /\ [][\A k \in Keys :
             (InForce(k) # None /\ GetReturnsAtOnce(k)) =>
                 done'[1].result = InForce(k)[1].value]_vars

\* the ttlSeconds arguments told apart: omitted, zero, negative, positive
TtlCases == {None, Some(0), Some(-1), Some(1), Some(2)}

\* the effective TTL of a set: the argument when one is passed, else the
\* instance default
EffectiveTtl(ttlSeconds) == IF ttlSeconds # None THEN ttlSeconds ELSE defaultTtlSeconds

\* the expiry the effective TTL gives an entry set at time t
ExpiryFor(ttlSeconds, t) ==
    LET ttl == EffectiveTtl(ttlSeconds)
    IN IF ttl # None /\ ttl[1] > 0 THEN Some(t + ttl[1] * MsPerSecond) ELSE None

\* a step in which has(k) completes
HasCompletes(k) ==
    \/ \E c \in Slots : calls[c].op = "has" /\ calls[c].key = k /\ calls'[c] = Idle
    \/ /\ issued' = issued + 1
       /\ calls' = calls
       /\ done' # <<>> /\ done'[1].op = "has" /\ done'[1].key = k

=============================================================================
